---------------------------- MODULE Spec2Model ----------------------------
(***************************************************************************)
(* Sceptic AI backend: the code-analysis engine and its job lifecycle.     *)
(*                                                                         *)
(*   Spec       the file-backed service of backend/api/app.py: repository  *)
(*              submissions, the background task process_github_analysis   *)
(*              and retrieval by id from RESULTS_DIR and the ledger.       *)
(*   SpecCache  the cache-backed service of backend/main.py: code and      *)
(*              repository submissions, analysis_cache, retrieval by id.   *)
(*   SpecScan   the pure functions of backend/ml/model.py and of           *)
(*              backend/main.py applied to bounded input texts.            *)
(*   SpecFetch  fetch_github_code of backend/ml/model.py called with a URL *)
(*              string, followed through its listing request and its loop. *)
(*                                                                         *)
(* Numbers with a fractional part are kept as scaled integers: the risk    *)
(* levels and risk scores of model.py in tenths (risk_level 72.5 is 725),  *)
(* its probabilities and confidences in thousandths (0.8 is 800), the      *)
(* confidence of main.py in hundredths of a percent (52.0 is 5200).  The   *)
(* risk_score of main.py is an integer and is kept as it is.               *)
(***************************************************************************)
EXTENDS Integers, Sequences, FiniteSets, TLC

VARIABLES
  \* ---- backend/api/app.py ----
  model,            \* the predictor loaded by startup_event ("loaded") or absent ("none")
  next_id,          \* number of analysis ids generated so far (uuid4 is modelled as a fresh index)
  tasks,            \* per analysis id: position and locals of process_github_analysis
  files,            \* per analysis id: the content of RESULTS_DIR/<id>.json
  chain,            \* the analysis ids that have a record on the ledger
  seen,             \* per analysis id: the status last shown to a caller
  resp,             \* the last response sent by the service
  \* ---- backend/main.py ----
  analysis_cache,   \* request id -> entry
  clock,            \* datetime.now() of store_analysis_result, as a counter
  served,           \* number of request ids generated so far
  resp_main,        \* the last response sent by the service
  \* ---- a pure function applied to an input ----
  code,             \* the input text
  output,           \* the value returned by the function applied to code
  \* ---- fetch_github_code of model.py, step by step ----
  fetch             \* the arguments, the remote and the locals of one call

appVars   == <<model, next_id, tasks, files, chain, seen, resp>>
cacheVars == <<analysis_cache, clock, served, resp_main>>
scanVars  == <<code, output, fetch>>
vars      == <<model, next_id, tasks, files, chain, seen, resp,
               analysis_cache, clock, served, resp_main, code, output, fetch>>

(***************************************************************************)
(* Bounds of the model.                                                    *)
(***************************************************************************)
MaxSnippets == 2

Min(a, b) == IF a < b THEN a ELSE b
Max(a, b) == IF a > b THEN a ELSE b

(***************************************************************************)
(* Input texts.  A text is a sequence of snippets; the analysed string is  *)
(* the snippets' lines joined by "\n" (the empty sequence is the empty     *)
(* string).  LineAttr gives, for each line, what the regular expressions   *)
(* and string operations of the source compute on it.                      *)
(***************************************************************************)
LineAttr ==
  [
    imp_os |->   \* import os
      [rules |-> {"imp_os"}, has_try |-> FALSE, has_except |-> FALSE, fmt_call |-> FALSE, fquote |-> FALSE,
       blank |-> FALSE, indent |-> 0, rlen |-> 9, cx |-> 0, comment |-> 0,
       names |-> 0, snake |-> 0, camel |-> 0, pascal |-> 0, is_def |-> FALSE, lead_ws |-> FALSE],
    imp_pack_1 |->   \* import subprocess
      [rules |-> {"imp_subprocess"}, has_try |-> FALSE, has_except |-> FALSE, fmt_call |-> FALSE, fquote |-> FALSE,
       blank |-> FALSE, indent |-> 0, rlen |-> 17, cx |-> 0, comment |-> 0,
       names |-> 0, snake |-> 0, camel |-> 0, pascal |-> 0, is_def |-> FALSE, lead_ws |-> FALSE],
    imp_pack_2 |->   \* import sys
      [rules |-> {"imp_sys"}, has_try |-> FALSE, has_except |-> FALSE, fmt_call |-> FALSE, fquote |-> FALSE,
       blank |-> FALSE, indent |-> 0, rlen |-> 10, cx |-> 0, comment |-> 0,
       names |-> 0, snake |-> 0, camel |-> 0, pascal |-> 0, is_def |-> FALSE, lead_ws |-> FALSE],
    imp_pack_3 |->   \* import requests
      [rules |-> {"imp_net"}, has_try |-> FALSE, has_except |-> FALSE, fmt_call |-> FALSE, fquote |-> FALSE,
       blank |-> FALSE, indent |-> 0, rlen |-> 15, cx |-> 0, comment |-> 0,
       names |-> 0, snake |-> 0, camel |-> 0, pascal |-> 0, is_def |-> FALSE, lead_ws |-> FALSE],
    imp_pack_4 |->   \* import socket
      [rules |-> {"imp_socket"}, has_try |-> FALSE, has_except |-> FALSE, fmt_call |-> FALSE, fquote |-> FALSE,
       blank |-> FALSE, indent |-> 0, rlen |-> 13, cx |-> 0, comment |-> 0,
       names |-> 0, snake |-> 0, camel |-> 0, pascal |-> 0, is_def |-> FALSE, lead_ws |-> FALSE],
    imp_pack_5 |->   \* from cryptography import x
      [rules |-> {"imp_crypto"}, has_try |-> FALSE, has_except |-> FALSE, fmt_call |-> FALSE, fquote |-> FALSE,
       blank |-> FALSE, indent |-> 0, rlen |-> 26, cx |-> 0, comment |-> 0,
       names |-> 0, snake |-> 0, camel |-> 0, pascal |-> 0, is_def |-> FALSE, lead_ws |-> FALSE],
    imp_pack_6 |->   \* import flask
      [rules |-> {"imp_web"}, has_try |-> FALSE, has_except |-> FALSE, fmt_call |-> FALSE, fquote |-> FALSE,
       blank |-> FALSE, indent |-> 0, rlen |-> 12, cx |-> 0, comment |-> 0,
       names |-> 0, snake |-> 0, camel |-> 0, pascal |-> 0, is_def |-> FALSE, lead_ws |-> FALSE],
    imp_pack_7 |->   \* import sqlite3
      [rules |-> {"imp_db"}, has_try |-> FALSE, has_except |-> FALSE, fmt_call |-> FALSE, fquote |-> FALSE,
       blank |-> FALSE, indent |-> 0, rlen |-> 14, cx |-> 0, comment |-> 0,
       names |-> 0, snake |-> 0, camel |-> 0, pascal |-> 0, is_def |-> FALSE, lead_ws |-> FALSE],
    call_eval |->   \* eval(x)
      [rules |-> {"fn_eval"}, has_try |-> FALSE, has_except |-> FALSE, fmt_call |-> FALSE, fquote |-> FALSE,
       blank |-> FALSE, indent |-> 0, rlen |-> 7, cx |-> 0, comment |-> 0,
       names |-> 0, snake |-> 0, camel |-> 0, pascal |-> 0, is_def |-> FALSE, lead_ws |-> FALSE],
    call_exec |->   \* exec(open(input()))
      [rules |-> {"fn_exec", "fn_open", "fn_input"}, has_try |-> FALSE, has_except |-> FALSE, fmt_call |-> FALSE, fquote |-> FALSE,
       blank |-> FALSE, indent |-> 0, rlen |-> 19, cx |-> 0, comment |-> 0,
       names |-> 0, snake |-> 0, camel |-> 0, pascal |-> 0, is_def |-> FALSE, lead_ws |-> FALSE],
    call_system |->   \* os.system('curl -s ' + u)
      [rules |-> {"fn_system", "pat_curl"}, has_try |-> FALSE, has_except |-> FALSE, fmt_call |-> FALSE, fquote |-> FALSE,
       blank |-> FALSE, indent |-> 0, rlen |-> 25, cx |-> 0, comment |-> 0,
       names |-> 0, snake |-> 0, camel |-> 0, pascal |-> 0, is_def |-> FALSE, lead_ws |-> FALSE],
    call_subproc |->   \* subprocess.run(pickle.loads(request.data))
      [rules |-> {"fn_subprocess", "fn_pickle", "fn_request"}, has_try |-> FALSE, has_except |-> FALSE, fmt_call |-> FALSE, fquote |-> FALSE,
       blank |-> FALSE, indent |-> 0, rlen |-> 42, cx |-> 0, comment |-> 0,
       names |-> 0, snake |-> 0, camel |-> 0, pascal |-> 0, is_def |-> FALSE, lead_ws |-> FALSE],
    call_sql |->   \* cur.execute('a {}'.format(q))
      [rules |-> {"fn_format", "fn_execute"}, has_try |-> FALSE, has_except |-> FALSE, fmt_call |-> TRUE, fquote |-> FALSE,
       blank |-> FALSE, indent |-> 0, rlen |-> 29, cx |-> 0, comment |-> 0,
       names |-> 0, snake |-> 0, camel |-> 0, pascal |-> 0, is_def |-> FALSE, lead_ws |-> FALSE],
    try |->   \* try:
      [rules |-> {}, has_try |-> TRUE, has_except |-> FALSE, fmt_call |-> FALSE, fquote |-> FALSE,
       blank |-> FALSE, indent |-> 0, rlen |-> 4, cx |-> 0, comment |-> 0,
       names |-> 0, snake |-> 0, camel |-> 0, pascal |-> 0, is_def |-> FALSE, lead_ws |-> FALSE],
    except |->   \* except Exception:
      [rules |-> {}, has_try |-> FALSE, has_except |-> TRUE, fmt_call |-> FALSE, fquote |-> FALSE,
       blank |-> FALSE, indent |-> 0, rlen |-> 17, cx |-> 0, comment |-> 0,
       names |-> 0, snake |-> 0, camel |-> 0, pascal |-> 0, is_def |-> FALSE, lead_ws |-> FALSE],
    pass |->   \*     pass
      [rules |-> {}, has_try |-> FALSE, has_except |-> FALSE, fmt_call |-> FALSE, fquote |-> FALSE,
       blank |-> FALSE, indent |-> 4, rlen |-> 8, cx |-> 0, comment |-> 0,
       names |-> 0, snake |-> 0, camel |-> 0, pascal |-> 0, is_def |-> FALSE, lead_ws |-> TRUE],
    comment |->   \* # note
      [rules |-> {}, has_try |-> FALSE, has_except |-> FALSE, fmt_call |-> FALSE, fquote |-> FALSE,
       blank |-> FALSE, indent |-> 0, rlen |-> 6, cx |-> 0, comment |-> 1,
       names |-> 0, snake |-> 0, camel |-> 0, pascal |-> 0, is_def |-> FALSE, lead_ws |-> FALSE],
    secrets_1 |->   \* password = 'pw'
      [rules |-> {"pat_password"}, has_try |-> FALSE, has_except |-> FALSE, fmt_call |-> FALSE, fquote |-> FALSE,
       blank |-> FALSE, indent |-> 0, rlen |-> 15, cx |-> 0, comment |-> 0,
       names |-> 1, snake |-> 1, camel |-> 0, pascal |-> 0, is_def |-> FALSE, lead_ws |-> FALSE],
    secrets_2 |->   \* secret = 'k'
      [rules |-> {"pat_secret"}, has_try |-> FALSE, has_except |-> FALSE, fmt_call |-> FALSE, fquote |-> FALSE,
       blank |-> FALSE, indent |-> 0, rlen |-> 12, cx |-> 0, comment |-> 0,
       names |-> 1, snake |-> 1, camel |-> 0, pascal |-> 0, is_def |-> FALSE, lead_ws |-> FALSE],
    secrets_3 |->   \* token = 't'
      [rules |-> {"pat_token"}, has_try |-> FALSE, has_except |-> FALSE, fmt_call |-> FALSE, fquote |-> FALSE,
       blank |-> FALSE, indent |-> 0, rlen |-> 11, cx |-> 0, comment |-> 0,
       names |-> 1, snake |-> 1, camel |-> 0, pascal |-> 0, is_def |-> FALSE, lead_ws |-> FALSE],
    secrets_4 |->   \* q = "SELECT a FROM t WHERE b = '" + v
      [rules |-> {"pat_sql"}, has_try |-> FALSE, has_except |-> FALSE, fmt_call |-> FALSE, fquote |-> FALSE,
       blank |-> FALSE, indent |-> 0, rlen |-> 37, cx |-> 0, comment |-> 0,
       names |-> 2, snake |-> 2, camel |-> 0, pascal |-> 0, is_def |-> FALSE, lead_ws |-> FALSE],
    names |->   \* aB = 1; Cd = 2; e_f = 3
      [rules |-> {}, has_try |-> FALSE, has_except |-> FALSE, fmt_call |-> FALSE, fquote |-> FALSE,
       blank |-> FALSE, indent |-> 0, rlen |-> 23, cx |-> 0, comment |-> 0,
       names |-> 3, snake |-> 1, camel |-> 1, pascal |-> 1, is_def |-> FALSE, lead_ws |-> FALSE],
    long |->   \* s = 'aaaaaaaaaaaaaaaaaaa...aaaaaaaaaaa'
      [rules |-> {}, has_try |-> FALSE, has_except |-> FALSE, fmt_call |-> FALSE, fquote |-> FALSE,
       blank |-> FALSE, indent |-> 0, rlen |-> 406, cx |-> 0, comment |-> 0,
       names |-> 1, snake |-> 1, camel |-> 0, pascal |-> 0, is_def |-> FALSE, lead_ws |-> FALSE],
    branchy |->   \* if a or b0 or b1 or b2 o...or b14: pass
      [rules |-> {}, has_try |-> FALSE, has_except |-> FALSE, fmt_call |-> FALSE, fquote |-> FALSE,
       blank |-> FALSE, indent |-> 0, rlen |-> 105, cx |-> 16, comment |-> 0,
       names |-> 0, snake |-> 0, camel |-> 0, pascal |-> 0, is_def |-> FALSE, lead_ws |-> FALSE],
    func_1 |->   \* def f():
      [rules |-> {}, has_try |-> FALSE, has_except |-> FALSE, fmt_call |-> FALSE, fquote |-> FALSE,
       blank |-> FALSE, indent |-> 0, rlen |-> 8, cx |-> 0, comment |-> 0,
       names |-> 0, snake |-> 0, camel |-> 0, pascal |-> 0, is_def |-> TRUE, lead_ws |-> FALSE],
    func_2 |->   \*     y
      [rules |-> {}, has_try |-> FALSE, has_except |-> FALSE, fmt_call |-> FALSE, fquote |-> FALSE,
       blank |-> FALSE, indent |-> 4, rlen |-> 5, cx |-> 0, comment |-> 0,
       names |-> 0, snake |-> 0, camel |-> 0, pascal |-> 0, is_def |-> FALSE, lead_ws |-> TRUE],
    blank |->   \*   
      [rules |-> {}, has_try |-> FALSE, has_except |-> FALSE, fmt_call |-> FALSE, fquote |-> FALSE,
       blank |-> TRUE, indent |-> 2, rlen |-> 0, cx |-> 0, comment |-> 0,
       names |-> 0, snake |-> 0, camel |-> 0, pascal |-> 0, is_def |-> FALSE, lead_ws |-> TRUE],
    hello |->   \* print('hello')
      [rules |-> {}, has_try |-> FALSE, has_except |-> FALSE, fmt_call |-> FALSE, fquote |-> FALSE,
       blank |-> FALSE, indent |-> 0, rlen |-> 14, cx |-> 0, comment |-> 0,
       names |-> 0, snake |-> 0, camel |-> 0, pascal |-> 0, is_def |-> FALSE, lead_ws |-> FALSE],
    guarded_eval_1 |->   \*     eval(x)
      [rules |-> {"fn_eval"}, has_try |-> FALSE, has_except |-> FALSE, fmt_call |-> FALSE, fquote |-> FALSE,
       blank |-> FALSE, indent |-> 4, rlen |-> 11, cx |-> 0, comment |-> 0,
       names |-> 0, snake |-> 0, camel |-> 0, pascal |-> 0, is_def |-> FALSE, lead_ws |-> TRUE],
    deep |->   \*                 w = 1
      [rules |-> {}, has_try |-> FALSE, has_except |-> FALSE, fmt_call |-> FALSE, fquote |-> FALSE,
       blank |-> FALSE, indent |-> 16, rlen |-> 21, cx |-> 0, comment |-> 0,
       names |-> 1, snake |-> 1, camel |-> 0, pascal |-> 0, is_def |-> FALSE, lead_ws |-> TRUE],
    pair |->   \* x_a = 1; y_b = 2
      [rules |-> {}, has_try |-> FALSE, has_except |-> FALSE, fmt_call |-> FALSE, fquote |-> FALSE,
       blank |-> FALSE, indent |-> 0, rlen |-> 16, cx |-> 0, comment |-> 0,
       names |-> 2, snake |-> 2, camel |-> 0, pascal |-> 0, is_def |-> FALSE, lead_ws |-> FALSE]
  ]

SnippetLines ==
  [
    imp_os |-> <<"imp_os">>,
    imp_pack |-> <<"imp_pack_1", "imp_pack_2", "imp_pack_3", "imp_pack_4", "imp_pack_5", "imp_pack_6", "imp_pack_7">>,
    call_eval |-> <<"call_eval">>,
    call_exec |-> <<"call_exec">>,
    call_system |-> <<"call_system">>,
    call_subproc |-> <<"call_subproc">>,
    call_sql |-> <<"call_sql">>,
    try |-> <<"try">>,
    except |-> <<"except">>,
    pass |-> <<"pass">>,
    comment |-> <<"comment">>,
    secrets |-> <<"secrets_1", "secrets_2", "secrets_3", "secrets_4">>,
    names |-> <<"names">>,
    long |-> <<"long">>,
    branchy |-> <<"branchy">>,
    func |-> <<"func_1">> \o [i \in 1..31 |-> "func_2"],
    blank |-> <<"blank">>,
    hello |-> <<"hello">>,
    guarded_eval |-> <<"try", "guarded_eval_1", "except", "pass">>,
    deep |-> <<"deep">>,
    pair |-> <<"pair">>
  ]
ContentAttr ==
  [
    imp_os |->
      [blank |-> FALSE, comment |-> FALSE, len |-> 9, lead |-> 0, start4 |-> FALSE,
       funcs |-> 0, all_doc |-> TRUE, classes |-> 0, words |-> {},
       vars |-> 0, snake |-> 0, camel |-> 0, sec |-> {}],
    imp_pack_1 |->
      [blank |-> FALSE, comment |-> FALSE, len |-> 17, lead |-> 0, start4 |-> FALSE,
       funcs |-> 0, all_doc |-> TRUE, classes |-> 0, words |-> {},
       vars |-> 0, snake |-> 0, camel |-> 0, sec |-> {}],
    imp_pack_2 |->
      [blank |-> FALSE, comment |-> FALSE, len |-> 10, lead |-> 0, start4 |-> FALSE,
       funcs |-> 0, all_doc |-> TRUE, classes |-> 0, words |-> {},
       vars |-> 0, snake |-> 0, camel |-> 0, sec |-> {}],
    imp_pack_3 |->
      [blank |-> FALSE, comment |-> FALSE, len |-> 15, lead |-> 0, start4 |-> FALSE,
       funcs |-> 0, all_doc |-> TRUE, classes |-> 0, words |-> {},
       vars |-> 0, snake |-> 0, camel |-> 0, sec |-> {}],
    imp_pack_4 |->
      [blank |-> FALSE, comment |-> FALSE, len |-> 13, lead |-> 0, start4 |-> FALSE,
       funcs |-> 0, all_doc |-> TRUE, classes |-> 0, words |-> {},
       vars |-> 0, snake |-> 0, camel |-> 0, sec |-> {}],
    imp_pack_5 |->
      [blank |-> FALSE, comment |-> FALSE, len |-> 26, lead |-> 0, start4 |-> FALSE,
       funcs |-> 0, all_doc |-> TRUE, classes |-> 0, words |-> {},
       vars |-> 0, snake |-> 0, camel |-> 0, sec |-> {}],
    imp_pack_6 |->
      [blank |-> FALSE, comment |-> FALSE, len |-> 12, lead |-> 0, start4 |-> FALSE,
       funcs |-> 0, all_doc |-> TRUE, classes |-> 0, words |-> {},
       vars |-> 0, snake |-> 0, camel |-> 0, sec |-> {}],
    imp_pack_7 |->
      [blank |-> FALSE, comment |-> FALSE, len |-> 14, lead |-> 0, start4 |-> FALSE,
       funcs |-> 0, all_doc |-> TRUE, classes |-> 0, words |-> {},
       vars |-> 0, snake |-> 0, camel |-> 0, sec |-> {}],
    call_eval |->
      [blank |-> FALSE, comment |-> FALSE, len |-> 7, lead |-> 0, start4 |-> FALSE,
       funcs |-> 0, all_doc |-> TRUE, classes |-> 0, words |-> {},
       vars |-> 0, snake |-> 0, camel |-> 0, sec |-> {"command_injection"}],
    call_exec |->
      [blank |-> FALSE, comment |-> FALSE, len |-> 19, lead |-> 0, start4 |-> FALSE,
       funcs |-> 0, all_doc |-> TRUE, classes |-> 0, words |-> {},
       vars |-> 0, snake |-> 0, camel |-> 0, sec |-> {"sql_injection", "command_injection"}],
    call_system |->
      [blank |-> FALSE, comment |-> FALSE, len |-> 25, lead |-> 0, start4 |-> FALSE,
       funcs |-> 0, all_doc |-> TRUE, classes |-> 0, words |-> {},
       vars |-> 0, snake |-> 0, camel |-> 0, sec |-> {"command_injection"}],
    call_subproc |->
      [blank |-> FALSE, comment |-> FALSE, len |-> 42, lead |-> 0, start4 |-> FALSE,
       funcs |-> 0, all_doc |-> TRUE, classes |-> 0, words |-> {},
       vars |-> 0, snake |-> 0, camel |-> 0, sec |-> {"unsafe_deserialization"}],
    call_sql |->
      [blank |-> FALSE, comment |-> FALSE, len |-> 29, lead |-> 0, start4 |-> FALSE,
       funcs |-> 0, all_doc |-> TRUE, classes |-> 0, words |-> {},
       vars |-> 0, snake |-> 0, camel |-> 0, sec |-> {"sql_injection"}],
    try |->
      [blank |-> FALSE, comment |-> FALSE, len |-> 4, lead |-> 0, start4 |-> FALSE,
       funcs |-> 0, all_doc |-> TRUE, classes |-> 0, words |-> {"try"},
       vars |-> 0, snake |-> 0, camel |-> 0, sec |-> {}],
    except |->
      [blank |-> FALSE, comment |-> FALSE, len |-> 17, lead |-> 0, start4 |-> FALSE,
       funcs |-> 0, all_doc |-> TRUE, classes |-> 0, words |-> {"except"},
       vars |-> 0, snake |-> 0, camel |-> 0, sec |-> {}],
    pass |->
      [blank |-> FALSE, comment |-> FALSE, len |-> 8, lead |-> 4, start4 |-> TRUE,
       funcs |-> 0, all_doc |-> TRUE, classes |-> 0, words |-> {},
       vars |-> 0, snake |-> 0, camel |-> 0, sec |-> {}],
    comment |->
      [blank |-> FALSE, comment |-> TRUE, len |-> 6, lead |-> 0, start4 |-> FALSE,
       funcs |-> 0, all_doc |-> TRUE, classes |-> 0, words |-> {},
       vars |-> 0, snake |-> 0, camel |-> 0, sec |-> {}],
    secrets_1 |->
      [blank |-> FALSE, comment |-> FALSE, len |-> 15, lead |-> 0, start4 |-> FALSE,
       funcs |-> 0, all_doc |-> TRUE, classes |-> 0, words |-> {},
       vars |-> 1, snake |-> 1, camel |-> 1, sec |-> {"hardcoded_secrets"}],
    secrets_2 |->
      [blank |-> FALSE, comment |-> FALSE, len |-> 12, lead |-> 0, start4 |-> FALSE,
       funcs |-> 0, all_doc |-> TRUE, classes |-> 0, words |-> {},
       vars |-> 1, snake |-> 1, camel |-> 1, sec |-> {"hardcoded_secrets"}],
    secrets_3 |->
      [blank |-> FALSE, comment |-> FALSE, len |-> 11, lead |-> 0, start4 |-> FALSE,
       funcs |-> 0, all_doc |-> TRUE, classes |-> 0, words |-> {},
       vars |-> 1, snake |-> 1, camel |-> 1, sec |-> {}],
    secrets_4 |->
      [blank |-> FALSE, comment |-> FALSE, len |-> 37, lead |-> 0, start4 |-> FALSE,
       funcs |-> 0, all_doc |-> TRUE, classes |-> 0, words |-> {},
       vars |-> 2, snake |-> 2, camel |-> 2, sec |-> {}],
    names |->
      [blank |-> FALSE, comment |-> FALSE, len |-> 23, lead |-> 0, start4 |-> FALSE,
       funcs |-> 0, all_doc |-> TRUE, classes |-> 0, words |-> {},
       vars |-> 3, snake |-> 1, camel |-> 1, sec |-> {}],
    long |->
      [blank |-> FALSE, comment |-> FALSE, len |-> 406, lead |-> 0, start4 |-> FALSE,
       funcs |-> 0, all_doc |-> TRUE, classes |-> 0, words |-> {},
       vars |-> 1, snake |-> 1, camel |-> 1, sec |-> {}],
    branchy |->
      [blank |-> FALSE, comment |-> FALSE, len |-> 105, lead |-> 0, start4 |-> FALSE,
       funcs |-> 0, all_doc |-> TRUE, classes |-> 0, words |-> {"if"},
       vars |-> 0, snake |-> 0, camel |-> 0, sec |-> {}],
    func_1 |->
      [blank |-> FALSE, comment |-> FALSE, len |-> 8, lead |-> 0, start4 |-> FALSE,
       funcs |-> 1, all_doc |-> FALSE, classes |-> 0, words |-> {},
       vars |-> 0, snake |-> 0, camel |-> 0, sec |-> {}],
    func_2 |->
      [blank |-> FALSE, comment |-> FALSE, len |-> 5, lead |-> 4, start4 |-> TRUE,
       funcs |-> 0, all_doc |-> TRUE, classes |-> 0, words |-> {},
       vars |-> 0, snake |-> 0, camel |-> 0, sec |-> {}],
    blank |->
      [blank |-> TRUE, comment |-> FALSE, len |-> 2, lead |-> 2, start4 |-> FALSE,
       funcs |-> 0, all_doc |-> TRUE, classes |-> 0, words |-> {},
       vars |-> 0, snake |-> 0, camel |-> 0, sec |-> {}],
    hello |->
      [blank |-> FALSE, comment |-> FALSE, len |-> 14, lead |-> 0, start4 |-> FALSE,
       funcs |-> 0, all_doc |-> TRUE, classes |-> 0, words |-> {},
       vars |-> 0, snake |-> 0, camel |-> 0, sec |-> {}],
    guarded_eval_1 |->
      [blank |-> FALSE, comment |-> FALSE, len |-> 11, lead |-> 4, start4 |-> TRUE,
       funcs |-> 0, all_doc |-> TRUE, classes |-> 0, words |-> {},
       vars |-> 0, snake |-> 0, camel |-> 0, sec |-> {"command_injection"}],
    deep |->
      [blank |-> FALSE, comment |-> FALSE, len |-> 21, lead |-> 16, start4 |-> TRUE,
       funcs |-> 0, all_doc |-> TRUE, classes |-> 0, words |-> {},
       vars |-> 1, snake |-> 1, camel |-> 1, sec |-> {}],
    pair |->
      [blank |-> FALSE, comment |-> FALSE, len |-> 16, lead |-> 0, start4 |-> FALSE,
       funcs |-> 0, all_doc |-> TRUE, classes |-> 0, words |-> {},
       vars |-> 2, snake |-> 2, camel |-> 0, sec |-> {}]
  ]

Snippets == DOMAIN SnippetLines

Texts == UNION {[1..n -> Snippets] : n \in 0..MaxSnippets}

RECURSIVE Lines(_)
Lines(text) ==
  IF text = <<>> THEN <<>> ELSE SnippetLines[Head(text)] \o Lines(Tail(text))

\* sum of a numeric attribute over the first n lines of L
RECURSIVE SumAttr(_, _, _)
SumAttr(L, attr, n) ==
  IF n = 0 THEN 0 ELSE LineAttr[L[n]][attr] + SumAttr(L, attr, n - 1)

RECURSIVE SumIndentSq(_, _)
SumIndentSq(L, n) ==
  IF n = 0 THEN 0
  ELSE LineAttr[L[n]].indent * LineAttr[L[n]].indent + SumIndentSq(L, n - 1)

\* code.split('\n') filtered by line.strip()
NonBlank(L) == SelectSeq(L, LAMBDA l : ~LineAttr[l].blank)

(***************************************************************************)
(* The metrics of model.py.                                                *)
(***************************************************************************)
\* calculate_indentation_consistency(code) < bound/100.  The function returns
\* 1.0 for no lines or a single indentation width and round(1 - std/4, 2)
\* otherwise; round(1 - std/4, 2) < b/100 iff std > (402 - 4b)/100, compared
\* on the variance (n*S2 - S1^2)/n^2 with common factors of 4 removed.
IndentationConsistencyBelow(L, bound) ==
  LET nb == NonBlank(L)
      n  == Len(nb)
      S1 == SumAttr(nb, "indent", n)
      S2 == SumIndentSq(nb, n)
      t  == (402 - 4 * bound) \div 2
  IN  /\ n > 0
      /\ Cardinality({LineAttr[nb[i]].indent : i \in 1..n}) # 1
      /\ 2500 * (n * S2 - S1 * S1) > t * t * n * n

\* calculate_avg_line_length(code) > bound: the mean of the right-stripped
\* lengths of the non-blank lines, rounded to 2 places
AvgLineLengthAbove(L, bound) ==
  LET nb == NonBlank(L)
      n  == Len(nb)
  IN  n > 0 /\ 200 * SumAttr(nb, "rlen", n) > (200 * bound + 1) * n

calculate_cyclomatic_complexity(L) == SumAttr(L, "cx", Len(L)) + 1

\* code.count('\n') + 1: the empty string has one line
NumLines(L) == IF L = <<>> THEN 1 ELSE Len(L)

CommentLines(L) == SumAttr(L, "comment", Len(L))

VarNames(L) == SumAttr(L, "names", Len(L))

\* calculate_naming_consistency(var_names) < 7/10
NamingConsistencyBelow07(L) ==
  LET total == VarNames(L)
      max_style == Max(SumAttr(L, "snake", Len(L)),
                       Max(SumAttr(L, "camel", Len(L)), SumAttr(L, "pascal", Len(L))))
  IN  total >= 2 /\ 10 * max_style < 7 * total

\* The matches of def\s+[^(]+\([^)]*\):\s*(?:\n\s+[^\n]+)+ as the number of
\* newlines of each match.  After the header every repetition of the group
\* takes a run of whitespace-only lines and the line after it; with no such
\* run the line must start with whitespace.
RECURSIVE RunBlank(_, _)
RunBlank(L, j) ==
  IF j <= Len(L) /\ LineAttr[L[j]].blank THEN 1 + RunBlank(L, j + 1) ELSE 0

RECURSIVE BodyEnd(_, _)
BodyEnd(L, j) ==
  LET r == RunBlank(L, j)
  IN  IF j + r <= Len(L)
      THEN IF r >= 1 \/ LineAttr[L[j + r]].lead_ws THEN BodyEnd(L, j + r + 1) ELSE j
      ELSE j + r

RECURSIVE FunctionBodiesFrom(_, _)
FunctionBodiesFrom(L, i) ==
  IF i > Len(L) THEN <<>>
  ELSE IF LineAttr[L[i]].is_def /\ BodyEnd(L, i + 1) > i + 1
       THEN <<BodyEnd(L, i + 1) - (i + 1)>> \o FunctionBodiesFrom(L, BodyEnd(L, i + 1))
       ELSE FunctionBodiesFrom(L, i + 1)

function_bodies(L) ==
  IF \E i \in 1..Len(L) : LineAttr[L[i]].is_def THEN FunctionBodiesFrom(L, 1) ELSE <<>>

RECURSIVE SumSeq(_)
SumSeq(s) == IF s = <<>> THEN 0 ELSE Head(s) + SumSeq(Tail(s))

(***************************************************************************)
(* analyze_code_vulnerabilities: the rule tables.                          *)
(***************************************************************************)
dangerous_imports ==
  << [key |-> "imp_os",         name |-> "OS Access",          risk |-> "high",     score |-> 8],
     [key |-> "imp_subprocess", name |-> "Command Execution",  risk |-> "critical", score |-> 10],
     [key |-> "imp_sys",        name |-> "System Access",      risk |-> "medium",   score |-> 5],
     [key |-> "imp_net",        name |-> "Network Access",     risk |-> "medium",   score |-> 6],
     [key |-> "imp_socket",     name |-> "Raw Socket Access",  risk |-> "high",     score |-> 7],
     [key |-> "imp_crypto",     name |-> "Cryptography Usage", risk |-> "medium",   score |-> 4],
     [key |-> "imp_web",        name |-> "Web Framework",      risk |-> "low",      score |-> 3],
     [key |-> "imp_db",         name |-> "Database Access",    risk |-> "medium",   score |-> 5] >>

dangerous_functions ==
  << [key |-> "fn_eval",       name |-> "Arbitrary Code Execution", risk |-> "critical", score |-> 10],
     [key |-> "fn_exec",       name |-> "Arbitrary Code Execution", risk |-> "critical", score |-> 10],
     [key |-> "fn_system",     name |-> "Command Execution",        risk |-> "critical", score |-> 9],
     [key |-> "fn_subprocess", name |-> "Command Execution",        risk |-> "high",     score |-> 8],
     [key |-> "fn_open",       name |-> "File Operations",          risk |-> "medium",   score |-> 5],
     [key |-> "fn_input",      name |-> "User Input",               risk |-> "medium",   score |-> 4],
     [key |-> "fn_pickle",     name |-> "Unsafe Deserialization",   risk |-> "high",     score |-> 7],
     [key |-> "fn_format",     name |-> "String Formatting",        risk |-> "low",      score |-> 2],
     [key |-> "fn_request",    name |-> "Web Request Handling",     risk |-> "medium",   score |-> 5],
     [key |-> "fn_execute",    name |-> "SQL Operations",           risk |-> "high",     score |-> 7] >>

vuln_patterns ==
  << [key |-> "pat_password", name |-> "Hardcoded Password",          risk |-> "critical", score |-> 9],
     [key |-> "pat_secret",   name |-> "Hardcoded Secret",            risk |-> "critical", score |-> 8],
     [key |-> "pat_token",    name |-> "Hardcoded Token",             risk |-> "high",     score |-> 7],
     [key |-> "pat_sql",      name |-> "Potential SQL Injection",     risk |-> "high",     score |-> 8],
     [key |-> "pat_curl",     name |-> "Command-line Network Access", risk |-> "medium",   score |-> 6] >>

\* re.search(pattern, code)
Matches(L, key) == \E i \in 1..Len(L) : key \in LineAttr[L[i]].rules

\* re.search(r'try\s*:.*?' + pattern + '.*?except', code, re.DOTALL).  The
\* pattern of the String Formatting rule is an alternation, so its
\* concatenation reads  try\s*:.*?\.format\s*\(  |  f['"].*?except .
is_potentially_safe(L, key) ==
  IF key = "fn_format"
  THEN \/ \E i, j \in 1..Len(L) : i < j /\ LineAttr[L[i]].has_try /\ LineAttr[L[j]].fmt_call
       \/ \E j, k \in 1..Len(L) : j < k /\ LineAttr[L[j]].fquote /\ LineAttr[L[k]].has_except
  ELSE \E j \in 1..Len(L) :
          /\ key \in LineAttr[L[j]].rules
          /\ \E i \in 1..(j - 1) : LineAttr[L[i]].has_try
          /\ \E k \in (j + 1)..Len(L) : LineAttr[L[k]].has_except

\* a finding: info.copy() with its type
Finding(rule, type) ==
  [type |-> type, name |-> rule.name, risk |-> rule.risk, score |-> rule.score,
   description |-> [of |-> rule.key, try_except_note |-> FALSE]]

\* the order of the risk tiers of the rule tables
Tier(risk) ==
  CASE risk = "low"      -> 1
    [] risk = "medium"   -> 2
    [] risk = "high"     -> 3
    [] risk = "critical" -> 4

\* (variant: the note is appended, score and tier are kept)
NotedOnly(v) == [v EXCEPT !.description = [@ EXCEPT !.try_except_note = TRUE]]

\* the discount of a finding that appears to be handled
Discounted(v) ==
  LET s == Max(1, v.score \div 2)
  IN  [v EXCEPT !.score = s,
                !.description = [@ EXCEPT !.try_except_note = TRUE],
                !.risk = IF s < 4 THEN "low" ELSE "medium"]

\* one pass of a rule table over the accumulated report
RECURSIVE ScanTable(_, _, _, _, _)
ScanTable(L, table, type, i, acc) ==
  IF i > Len(table) THEN acc
  ELSE IF Matches(L, table[i].key)
       THEN LET plain == Finding(table[i], type)
                v == IF type = "function" /\ is_potentially_safe(L, table[i].key)
                     THEN Discounted(plain) ELSE plain
            IN  ScanTable(L, table, type, i + 1,
                          [acc EXCEPT !.vulnerabilities = Append(@, v),
                                      !.risk_level = @ + v.score])
       ELSE ScanTable(L, table, type, i + 1, acc)

\* (variant: the score is added to the risk sum, the entry is not reported)
QualityIssueNotReported(acc, cond, key, score) ==
  IF cond THEN [acc EXCEPT !.risk_level = @ + score] ELSE acc

\* a code-quality check: code_quality[key] = {...}; risk_level += score
QualityIssue(acc, cond, key, score) ==
  IF cond
  THEN [acc EXCEPT !.code_quality = (key :> [score |-> score]) @@ @,
                   !.risk_level = @ + score]
  ELSE acc

\* the three passes over the rule tables, in the order of the source
ScanRules(L) ==
  ScanTable(L, vuln_patterns, "pattern", 1,
    ScanTable(L, dangerous_functions, "function", 1,
      ScanTable(L, dangerous_imports, "import", 1,
        [vulnerabilities |-> <<>>, code_quality |-> <<>>, risk_level |-> 0])))

FunctionsTooLong(fb) == fb # <<>> /\ SumSeq(fb) > 30 * Len(fb)

\* the code-quality checks, in the order of the source
ScanQuality(L, acc) ==
  QualityIssue(
    QualityIssue(
      QualityIssue(
        QualityIssue(
          QualityIssue(
            QualityIssue(acc, IndentationConsistencyBelow(L, 80), "indentation", 3),
            AvgLineLengthAbove(L, 120), "line_length", 2),
          calculate_cyclomatic_complexity(L) > 15, "complexity", 4),
        20 * CommentLines(L) < NumLines(L), "documentation", 2),
      NamingConsistencyBelow07(L) /\ VarNames(L) > 5, "naming_consistency", 3),
    FunctionsTooLong(function_bodies(L)), "function_length", 3)

ScanLines(L) == ScanQuality(L, ScanRules(L))

\* the findings, the quality issues and the risk sum before normalisation
Scan(text) == ScanLines(Lines(text))

\* the returned report for a scan and its normalised risk
Report(scan, normalized_risk) ==
  [vulnerabilities |-> scan.vulnerabilities,
   code_quality    |-> scan.code_quality,
   risk_level      |-> normalized_risk,
   high_risk       |-> normalized_risk >= 700,
   medium_risk     |-> 300 <= normalized_risk /\ normalized_risk < 700,
   low_risk        |-> normalized_risk < 300]

\* (variant: the risk sum is scaled but not capped)
Uncapped(scan) == Report(scan, scan.risk_level * 25)

\* normalized_risk = min(100, risk_level * 2.5)
Capped(scan) == Report(scan, Min(1000, scan.risk_level * 25))

analyze_code_vulnerabilities(text) == Capped(Scan(text))

\* (variant: the findings and the risk sum are kept between calls)
RerunAccumulating(text, earlier) ==
  Capped([vulnerabilities |-> Scan(earlier).vulnerabilities \o Scan(text).vulnerabilities,
          code_quality    |-> Scan(text).code_quality,
          risk_level      |-> Scan(earlier).risk_level + Scan(text).risk_level])

\* a run on text after a run on earlier.  The rule tables, the findings list,
\* the quality dict and the risk sum are locals created by each call, a
\* finding is a copy of its table entry, and no module-level name is written.
Rerun(text, earlier) == analyze_code_vulnerabilities(text)

(***************************************************************************)
(* predict_code.  A value passed as code is a string (a text) or, from     *)
(* process_github_analysis, whatever fetch_github_code returned.  loaded   *)
(* says whether model, tokenizer and scaler are available (passed in, or   *)
(* found by load_model); p is the probability the predictor returns and    *)
(* raises says that a predictor call (scaler.transform, texts_to_sequences,*)
(* model.predict) raised.                                                  *)
(***************************************************************************)
Str(text) == [kind |-> "str", text |-> text]

Probabilities == {100, 300, 500, 700, 900}

ErrorResult(e) ==
  [error |-> e, prediction |-> "Error", confidence |-> 0, source |-> "Error",
   risk_score |-> 0,
   security_analysis |->
     [vulnerabilities |-> <<>>, code_quality |-> <<>>, risk_level |-> 0,
      high_risk |-> FALSE, medium_risk |-> FALSE, low_risk |-> FALSE]]

\* the label and the attribution for a probability of AI authorship
Source(p) ==
  IF p >= 800 THEN "AI (High Confidence)"
  ELSE IF p >= 600 THEN "AI (Medium Confidence)"
  ELSE IF p <= 200 THEN "Human (High Confidence)"
  ELSE IF p <= 400 THEN "Human (Medium Confidence)"
  ELSE "Uncertain"

Prediction(p) ==
  IF p >= 600 THEN "AI" ELSE IF p <= 400 THEN "Human" ELSE "Uncertain"

\* the result when no predictor is available
FallbackResult(security_analysis) ==
  [prediction |-> "Unknown", confidence |-> 500, source |-> "Fallback",
   source_probabilities |-> [AI |-> 500, Human |-> 500],
   security_analysis |-> security_analysis]

\* the result of a prediction p
PredictedResult(p, security_analysis) ==
  [prediction |-> Prediction(p),
   confidence |-> Max(p, 1000 - p),
   source |-> Source(p),
   source_probabilities |-> [AI |-> p, Human |-> 1000 - p],
   security_analysis |-> security_analysis,
   risk_score |-> security_analysis.risk_level]

predict_code(c, loaded, p, raises) ==
  IF ~loaded
  THEN \* fallback: re.search on a value that is not a string raises TypeError
       IF c.kind # "str" THEN ErrorResult("TypeError")
       ELSE FallbackResult(analyze_code_vulnerabilities(c.text))
  ELSE \* extract_code_features: code.count on a value that is not a string
       IF c.kind # "str" THEN ErrorResult("AttributeError")
       ELSE IF raises THEN ErrorResult("PredictorError")
       ELSE PredictedResult(p, analyze_code_vulnerabilities(c.text))

\* dict.get(key, default)
Get(d, key, default) == IF key \in DOMAIN d THEN d[key] ELSE default

(***************************************************************************)
(* backend/main.py: analyze_code_content.  R is the submitted text as its  *)
(* lines, L the lines of content.strip(): the whitespace-only lines at     *)
(* both ends are dropped and the first line loses its leading whitespace.  *)
(* Carried in the result: prediction, confidence (hundredths of a          *)
(* percent), risk_score (0..100), analysis_details and security_analysis   *)
(* without the rounded averages and ratios.                                *)
(***************************************************************************)
IsBlankLine(k) == ContentAttr[k].blank

\* not content or not content.strip()
IsBlankContent(R) == \A i \in 1..Len(R) : IsBlankLine(R[i])

FirstCodeLine(R) == CHOOSE i \in 1..Len(R) :
                      ~IsBlankLine(R[i]) /\ \A j \in 1..(i - 1) : IsBlankLine(R[j])
LastCodeLine(R)  == CHOOSE i \in 1..Len(R) :
                      ~IsBlankLine(R[i]) /\ \A j \in (i + 1)..Len(R) : IsBlankLine(R[j])

\* content.strip().split('\n')
StrippedLines(R) == SubSeq(R, FirstCodeLine(R), LastCodeLine(R))

IsCommentLine(k) == ContentAttr[k].comment
IsCodeLine(k) == ~ContentAttr[k].blank /\ ~ContentAttr[k].comment

code_lines(L) == Cardinality({i \in 1..Len(L) : IsCodeLine(L[i])})
comment_lines(L) == Cardinality({i \in 1..Len(L) : IsCommentLine(L[i])})
empty_lines(L) == Cardinality({i \in 1..Len(L) : IsBlankLine(L[i])})

RECURSIVE SumContent(_, _, _)
SumContent(R, attr, n) ==
  IF n = 0 THEN 0 ELSE ContentAttr[R[n]][attr] + SumContent(R, attr, n - 1)

\* len(l) of line i of L; the first line has lost its leading whitespace
LineLength(L, i) ==
  IF i = 1 THEN ContentAttr[L[i]].len - ContentAttr[L[i]].lead ELSE ContentAttr[L[i]].len

MaxOf(S) == IF S = {} THEN 0 ELSE CHOOSE m \in S : \A n \in S : n <= m

max_line_length(L) ==
  MaxOf({LineLength(L, i) : i \in {j \in 1..Len(L) : ~IsBlankLine(L[j])}})

\* sum(1 for word in complexity_indicators if re.search(rf'\b{word}\b', content))
complexity_score(R) == Cardinality(UNION {ContentAttr[R[i]].words : i \in 1..Len(R)})

\* max(snake_case, camel_case) / len(variables) compared with num/10;
\* the ratio is 1 when there are no variables
NamingAbove(R, num) ==
  \/ SumContent(R, "vars", Len(R)) = 0
  \/ 10 * Max(SumContent(R, "snake", Len(R)), SumContent(R, "camel", Len(R)))
       > num * SumContent(R, "vars", Len(R))

NamingBelow(R, num) ==
  /\ SumContent(R, "vars", Len(R)) > 0
  /\ 10 * Max(SumContent(R, "snake", Len(R)), SumContent(R, "camel", Len(R)))
       < num * SumContent(R, "vars", Len(R))

\* all(l.startswith((' ' * 4, '\t')) for l in lines if l.strip())
ConsistentFormatting(L) ==
  \A i \in 1..Len(L) : ~IsBlankLine(L[i]) => (i # 1 /\ ContentAttr[L[i]].start4)

\* len(functions) > 0 and all('"""' in f or "'''" in f for f in functions)
StructuredFunctions(R) ==
  /\ SumContent(R, "funcs", Len(R)) > 0
  /\ \A i \in 1..Len(R) : ContentAttr[R[i]].all_doc

\* 0.05 < complexity_score / code_lines < 0.2
ComplexityBalanced(cs, n) == 5 * cs < n /\ n < 20 * cs

\* sum(ai_indicators.values()), in tenths
IndicatorSum(R, L) ==
    (IF ConsistentFormatting(L) THEN 8 ELSE 4)
  + (IF 10 * comment_lines(L) > Len(L) THEN 9 ELSE 3)
  + (IF StructuredFunctions(R) THEN 8 ELSE 4)
  + (IF NamingAbove(R, 8) THEN 9 ELSE 5)
  + (IF ComplexityBalanced(complexity_score(R), code_lines(L)) THEN 7 ELSE 4)

\* the length of the whitespace that starts at the beginning of line j
RECURSIVE WhitespaceRun(_, _)
WhitespaceRun(R, j) ==
  IF j > Len(R) THEN 0
  ELSE IF IsBlankLine(R[j])
       THEN ContentAttr[R[j]].len + (IF j < Len(R) THEN 1 ELSE 0) + WhitespaceRun(R, j + 1)
       ELSE ContentAttr[R[j]].lead

\* re.search(r'^\s{16,}', content, re.MULTILINE)
DeepNesting(R) == \E j \in 1..Len(R) : WhitespaceRun(R, j) >= 16

\* the risk factors that are true, in the order of the warnings
risk_factors(R, L) ==
  SelectSeq(<<"high_complexity", "long_lines", "poor_commenting", "inconsistent_naming",
              "deep_nesting">>,
            LAMBDA f :
              CASE f = "high_complexity"     -> complexity_score(R) > 20
                [] f = "long_lines"          -> max_line_length(L) > 100
                [] f = "poor_commenting"     -> 20 * comment_lines(L) < Len(L)
                [] f = "inconsistent_naming" -> NamingBelow(R, 7)
                [] f = "deep_nesting"        -> DeepNesting(R))

security_patterns ==
  << [type |-> "sql_injection",          name |-> "Potential SQL injection vulnerability"],
     [type |-> "command_injection",      name |-> "Potential command injection vulnerability"],
     [type |-> "hardcoded_secrets",      name |-> "Hardcoded secrets detected"],
     [type |-> "unsafe_deserialization", name |-> "Unsafe deserialization detected"],
     [type |-> "path_traversal",         name |-> "Potential path traversal vulnerability"] >>

RECURSIVE ContentFindings(_, _)
ContentFindings(R, i) ==
  IF i > Len(security_patterns) THEN <<>>
  ELSE (IF \E j \in 1..Len(R) : security_patterns[i].type \in ContentAttr[R[j]].sec
        THEN <<[type |-> security_patterns[i].type, name |-> security_patterns[i].name,
                risk |-> "high", score |-> 8]>>
        ELSE <<>>) \o ContentFindings(R, i + 1)

\* the result returned by the except branch
ContentError ==
  [prediction |-> "Error", confidence |-> 0, risk_score |-> 0, source |-> "Analysis Error",
   analysis_details |->
     [total_lines |-> 0, code_lines |-> 0, comment_lines |-> 0, empty_lines |-> 0,
      complexity_score |-> 0, max_line_length |-> 0, functions_count |-> 0,
      classes_count |-> 0],
   security_analysis |->
     [vulnerabilities |-> <<>>, risk_level |-> "unknown", high_risk |-> FALSE,
      medium_risk |-> FALSE, low_risk |-> FALSE,
      warnings |-> <<"Analysis failed due to an error">>]]

\* prediction = "AI" if confidence_score > 0.6 else "Human", for the indicator
\* sum s10 = 50 * confidence_score
ContentPrediction(s10) == IF 2 * s10 > 60 THEN "AI" ELSE "Human"

\* round(source_confidence * 100, 2)
ContentConfidence(s10) == IF 2 * s10 > 60 THEN 200 * s10 ELSE 10000 - 200 * s10

\* the returned dict for the indicator sum s10 and the risk score
ContentResult(R, L, s10, risk, warnings) ==
  [prediction |-> ContentPrediction(s10),
   confidence |-> ContentConfidence(s10),
   risk_score |-> Min(100, risk),
   source |-> ContentPrediction(s10),
   analysis_details |->
     [total_lines |-> Len(L),
      code_lines |-> code_lines(L),
      comment_lines |-> comment_lines(L),
      empty_lines |-> empty_lines(L),
      complexity_score |-> complexity_score(R),
      max_line_length |-> max_line_length(L),
      functions_count |-> SumContent(R, "funcs", Len(R)),
      classes_count |-> SumContent(R, "classes", Len(R))],
   security_analysis |->
     [vulnerabilities |-> ContentFindings(R, 1),
      risk_level |-> IF risk > 70 THEN "high" ELSE IF risk > 40 THEN "medium" ELSE "low",
      high_risk |-> risk > 70,
      medium_risk |-> 40 < risk /\ risk <= 70,
      low_risk |-> risk <= 40,
      warnings |-> warnings]]

\* the body of the try block once the text is known not to be blank; a text
\* without code lines divides by zero in complexity_balance
ContentOfLines(R, L) ==
  IF code_lines(L) = 0
  THEN ContentError
  ELSE ContentResult(R, L, IndicatorSum(R, L), 20 * Len(risk_factors(R, L)),
                     risk_factors(R, L))

analyze_content_lines(R) ==
  IF IsBlankContent(R) THEN ContentError ELSE ContentOfLines(R, StrippedLines(R))

analyze_code_content(text) == analyze_content_lines(Lines(text))

(***************************************************************************)
(* SpecScan: the functions of model.py applied to a bounded input text.    *)
(***************************************************************************)
NoOutput == [op |-> "none"]

InitScan ==
  /\ code \in Texts
  /\ output = NoOutput

CallAnalyzeCodeVulnerabilities ==
  /\ output = NoOutput
  /\ output' = [op |-> "analyze_code_vulnerabilities",
                value |-> analyze_code_vulnerabilities(code)]
  /\ UNCHANGED <<code, fetch, appVars, cacheVars>>

\* the texts of a call made between two runs on the same text: the empty
\* text, a guarded match (the discount branch) and an unguarded one
EarlierTexts == {<<>>, <<"guarded_eval">>, <<"call_eval">>}

\* analyze_code_vulnerabilities called on some text and then once more on the
\* text of the first run
CallAnalyzeCodeVulnerabilitiesAgain ==
  /\ output.op = "analyze_code_vulnerabilities"
  /\ "again" \notin DOMAIN output
  /\ \E earlier \in EarlierTexts :
       output' = [op |-> output.op, value |-> output.value,
                  again |-> Rerun(code, earlier)]
  /\ UNCHANGED <<code, fetch, appVars, cacheVars>>

CallPredictCode ==
  /\ output = NoOutput
  /\ \E loaded \in BOOLEAN, raises \in BOOLEAN :
       \E p \in IF loaded /\ ~raises THEN Probabilities ELSE {500} :
          /\ loaded \/ ~raises
          /\ output' = [op |-> "predict_code", loaded |-> loaded,
                        value |-> predict_code(Str(code), loaded, p, raises)]
  /\ UNCHANGED <<code, fetch, appVars, cacheVars>>

CallAnalyzeCodeContent ==
  /\ output = NoOutput
  /\ output' = [op |-> "analyze_code_content", value |-> analyze_code_content(code)]
  /\ UNCHANGED <<code, fetch, appVars, cacheVars>>

NextScan ==
  \/ CallAnalyzeCodeVulnerabilities
  \/ CallAnalyzeCodeVulnerabilitiesAgain
  \/ CallPredictCode
  \/ CallAnalyzeCodeContent

(***************************************************************************)
(* backend/api/app.py: the file-backed service.                            *)
(*                                                                         *)
(* Every file operation and every call of process_github_analysis is a     *)
(* step of its own: RESULTS_DIR is shared through the file system with     *)
(* whichever worker serves get_analysis.                                   *)
(***************************************************************************)
MaxJobs == 1

Ids == 1..MaxJobs
UnknownId == 0                 \* an id that uuid4 never produces
None == "None"                 \* Python's None among request strings

RepoUrls == {"https://github.com/o/app", "https://github.com/o/docs", "not a repository"}
Branches == {None, "main"}     \* GithubAnalysisRequest.branch, default "main"

\* the submitted bodies: every url with and without a branch, and one that
\* names a file (file_path defaults to None)
Requests ==
  {[repo_url |-> url, branch |-> branch, file_path |-> None] :
     url \in RepoUrls, branch \in Branches}
  \cup {[repo_url |-> "https://github.com/o/app", branch |-> None, file_path |-> "main.py"]}

Truthy(s) == s # None /\ s # ""

\* parse_github_url on a string: (owner, repo, branch, path) or None
parse_github_url(url) ==
  CASE url = "https://github.com/o/app" ->
         [kind |-> "tuple", owner |-> "o", repo |-> "app", branch |-> "main", path |-> None]
    [] url = "https://github.com/o/docs" ->
         [kind |-> "tuple", owner |-> "o", repo |-> "docs", branch |-> "main", path |-> None]
    [] OTHER -> [kind |-> "none"]

\* what the remote lists for a repository: its files, with name and extension
RemoteListing(url) ==
  CASE url = "https://github.com/o/app" ->
         <<[name |-> "main.py", ext |-> ".py"], [name |-> "README.md", ext |-> ".md"]>>
    [] url = "https://github.com/o/docs" ->
         <<[name |-> "README.md", ext |-> ".md"], [name |-> "LICENSE", ext |-> ""]>>
    [] OTHER -> <<>>

\* the extensions fetch_github_code keeps
code_extensions ==
  {".py", ".js", ".jsx", ".ts", ".tsx", ".sol", ".java", ".c", ".cpp", ".h", ".go", ".rs",
   ".php", ".rb"}

\* any(item['name'].endswith(ext) for ext in code_extensions) for some item
HasCodeFile(listing) ==
  \E i \in 1..Len(listing) : listing[i].ext \in code_extensions

\* fetch_github_code called with repo_info, which is a tuple or None and not
\* a URL string: re.match inside parse_github_url raises TypeError, which
\* the function's last handler turns into an error dict.
fetch_github_code(repo_info) ==
  [kind |-> "dict", error |-> "Failed to fetch GitHub code: TypeError"]

\* `not code` for a value of fetch_github_code
IsEmpty(c) ==
  CASE c.kind = "none"  -> TRUE
    [] c.kind = "str"   -> c.text = <<>>
    [] c.kind = "dict"  -> FALSE
    [] c.kind = "tuple" -> FALSE

NoResult == [kind |-> "none"]
Absent   == [kind |-> "absent"]     \* os.path.exists is false
Partial  == [kind |-> "partial"]    \* opened with 'w', json.dump not finished

Record(status, result, tx) ==
  [kind |-> "json", status |-> status, result |-> result, blockchain_tx |-> tx]

NoTask == [pc |-> "none"]

\* the record that the with-block at the task's position writes
analysis_data(t) ==
  CASE t.site = "initial" -> Record("processing", NoResult, None)
    [] t.site = "no_code" -> Record("failed",
                               [error |-> "Failed to fetch code from GitHub repository"], None)
    [] t.site = "final"   -> Record("completed", t.result, t.blockchain_tx)
    [] t.site = "except"  -> Record("failed", [error |-> t.err], t.blockchain_tx)

\* an exception inside the try block: the handler writes the failed record;
\* an exception inside the handler is logged and the task ends
Raise(t, e) ==
  IF t.site = "except"
  THEN [t EXCEPT !.pc = "done"]
  ELSE [t EXCEPT !.pc = "open", !.site = "except", !.err = e]

\* (variant: the handler's block runs after the final write as well, as a
\* finally clause would)
AfterDumpFinally(t) ==
  IF t.site = "initial" THEN [t EXCEPT !.pc = "parse"]
  ELSE IF t.site = "final" THEN [t EXCEPT !.pc = "open", !.site = "except", !.err = "None"]
  ELSE [t EXCEPT !.pc = "done"]

\* where the task continues after a with-block has written its record
AfterDump(t) ==
  IF t.site = "initial" THEN [t EXCEPT !.pc = "parse"] ELSE [t EXCEPT !.pc = "done"]

InitApp ==
  /\ model \in {"none", "loaded"}
  /\ next_id = 0
  /\ tasks = [id \in Ids |-> NoTask]
  /\ files = [id \in {UnknownId} \cup Ids |-> Absent]
  /\ chain = {}
  /\ seen = [id \in {UnknownId} \cup Ids |-> "none"]
  /\ resp = [op |-> "none"]

\* POST /analyze/github: a fresh id, the task is queued, "pending" is returned
analyze_github_repo(request) ==
  /\ next_id < MaxJobs
  /\ next_id' = next_id + 1
  /\ tasks' = [tasks EXCEPT ![next_id + 1] =
                 [pc |-> "open", site |-> "initial",
                  request |-> request,
                  err |-> None, code |-> NoResult, result |-> NoResult,
                  blockchain_result |-> <<>>, blockchain_tx |-> None]]
  /\ resp' = [op |-> "submit", id |-> next_id + 1, code |-> 200, status |-> "pending"]
  /\ seen' = [seen EXCEPT ![next_id + 1] = "pending"]
  /\ UNCHANGED <<cacheVars, scanVars, model, files, chain>>

\* open(analysis_file, 'w'): truncates the file, or raises
OpenFile(id, ok) ==
  /\ tasks[id].pc = "open"
  /\ IF ok
     THEN /\ files' = [files EXCEPT ![id] = Partial]
          /\ tasks' = [tasks EXCEPT ![id].pc = "dump"]
     ELSE /\ tasks' = [tasks EXCEPT ![id] = Raise(@, "OSError")]
          /\ UNCHANGED files
  /\ UNCHANGED <<cacheVars, scanVars, model, next_id, chain, seen, resp>>

\* json.dump(analysis_data, f) and the close of the with-block, or an I/O error
DumpFile(id, ok) ==
  /\ tasks[id].pc = "dump"
  /\ IF ok
     THEN /\ files' = [files EXCEPT ![id] = analysis_data(tasks[id])]
          /\ tasks' = [tasks EXCEPT ![id] = AfterDump(@)]
     ELSE /\ tasks' = [tasks EXCEPT ![id] = Raise(@, "OSError")]
          /\ UNCHANGED files
  /\ UNCHANGED <<cacheVars, scanVars, model, next_id, chain, seen, resp>>

\* repo_info = parse_github_url(...); repo_info['branch'] = ...; repo_info['file_path'] = ...
\* Item assignment on a tuple or on None raises TypeError.
ParseRequest(id) ==
  /\ tasks[id].pc = "parse"
  /\ tasks' = [tasks EXCEPT ![id] =
                 IF Truthy(@.request.branch) \/ Truthy(@.request.file_path)
                 THEN Raise(@, "TypeError")
                 ELSE [@ EXCEPT !.pc = "fetch"]]
  /\ UNCHANGED <<cacheVars, scanVars, model, next_id, files, chain, seen, resp>>

\* the task after code = fetch_github_code(repo_info); if not code: ...
Fetched(t, c) ==
  IF IsEmpty(c)
  THEN [t EXCEPT !.pc = "open", !.site = "no_code", !.code = c]
  ELSE [t EXCEPT !.pc = "predict", !.code = c]

FetchCode(id) ==
  /\ tasks[id].pc = "fetch"
  /\ tasks' = [tasks EXCEPT ![id] =
                 Fetched(@, fetch_github_code(parse_github_url(@.request.repo_url)))]
  /\ UNCHANGED <<cacheVars, scanVars, model, next_id, files, chain, seen, resp>>

\* (variant: the risk threshold of the gate is lost)
AnyRiskOrAI(result) ==
  \/ Get(result, "risk_score", 0) >= 0
  \/ Get(result, "prediction", None) = "AI" /\ Get(result, "confidence", 0) >= 800

\* the gate of the ledger write
HighRiskOrAI(result) ==
  \/ Get(result, "risk_score", 0) >= 700
  \/ Get(result, "prediction", None) = "AI" /\ Get(result, "confidence", 0) >= 800

\* status = "completed"; store_analysis_on_chain when the gate holds: it
\* returns success with a transaction hash, or a failure (it catches its own
\* exceptions).  blockchain_result keeps what each call returned.
Analysed(id, result, stored) ==
  IF HighRiskOrAI(result)
  THEN IF stored
       THEN /\ chain' = chain \cup {id}
            /\ tasks' = [tasks EXCEPT ![id] =
                           [@ EXCEPT !.pc = "open", !.site = "final", !.result = result,
                                     !.blockchain_result = Append(@, "success"),
                                     !.blockchain_tx = "0xtx"]]
       ELSE /\ chain' = chain
            /\ tasks' = [tasks EXCEPT ![id] =
                           [@ EXCEPT !.pc = "open", !.site = "final", !.result = result,
                                     !.blockchain_result = Append(@, "error")]]
  ELSE /\ chain' = chain
       /\ tasks' = [tasks EXCEPT ![id] =
                      [@ EXCEPT !.pc = "open", !.site = "final", !.result = result]]

\* result = predict_code(code, model, tokenizer, scaler) and what follows it
\* up to the final write
PredictAndStore(id) ==
  /\ tasks[id].pc = "predict"
  /\ \E p \in Probabilities, raises \in BOOLEAN, stored \in BOOLEAN :
       Analysed(id, predict_code(tasks[id].code, model = "loaded", p, raises), stored)
  /\ UNCHANGED <<cacheVars, scanVars, model, next_id, files, seen, resp>>

\* GET /analysis/{analysis_id}.  get_analysis_from_chain returns the ledger's
\* record, or None when there is none or the ledger cannot be read.  The
\* response built from a ledger record has blockchain_tx = True, which the
\* response model (Optional[str], pydantic >= 2) rejects: the caller gets 500.
get_analysis(id, ledger_readable) ==
  /\ IF files[id] = Absent
     THEN IF id \in chain /\ ledger_readable
          THEN /\ resp' = [op |-> "get", id |-> id, code |-> 500, status |-> None]
               /\ UNCHANGED seen
          ELSE /\ resp' = [op |-> "get", id |-> id, code |-> 404, status |-> None]
               /\ UNCHANGED seen
     ELSE IF files[id] = Partial
          THEN \* json.load raises on an incomplete document
               /\ resp' = [op |-> "get", id |-> id, code |-> 500, status |-> None]
               /\ UNCHANGED seen
          ELSE /\ resp' = [op |-> "get", id |-> id, code |-> 200, status |-> files[id].status]
               /\ seen' = [seen EXCEPT ![id] = files[id].status]
  /\ UNCHANGED <<cacheVars, scanVars, model, next_id, tasks, files, chain>>

Next ==
  \/ \E request \in Requests : analyze_github_repo(request)
  \/ \E id \in Ids, ok \in BOOLEAN : OpenFile(id, ok)
  \/ \E id \in Ids, ok \in BOOLEAN : DumpFile(id, ok)
  \/ \E id \in Ids : ParseRequest(id)
  \/ \E id \in Ids : FetchCode(id)
  \/ \E id \in Ids : PredictAndStore(id)
  \/ \E id \in {UnknownId} \cup Ids, ledger_readable \in BOOLEAN : get_analysis(id, ledger_readable)

(***************************************************************************)
(* SpecFetch: fetch_github_code of model.py called with a URL string.  The *)
(* call is followed step by step: the listing request, then one step per   *)
(* iteration of the loop over files_to_process[:max_files].                *)
(***************************************************************************)
MaxItems == 3

\* what a download of item['download_url'] gives: requests.get(...).text of
\* whatever the remote answers (the status is not looked at), or an exception
Downloaded(lines)  == [kind |-> "ok", status |-> 200, body |-> "source", lines |-> lines]
RateLimited    == [kind |-> "ok", status |-> 403, body |-> "rate limit exceeded", lines |-> 1]
ConnectionLost == [kind |-> "raise", status |-> 0, body |-> "", lines |-> 0]

\* the entries a listing can hold
ListedItems ==
  { [name |-> "a.py",      type |-> "file", ext |-> ".py", size |-> 10, download |-> Downloaded(3)],
    [name |-> "b.js",      type |-> "file", ext |-> ".js", size |-> 10, download |-> Downloaded(4)],
    [name |-> "full.py",   type |-> "file", ext |-> ".py", size |-> 50, download |-> Downloaded(1000)],
    [name |-> "big.py",    type |-> "file", ext |-> ".py", size |-> 90, download |-> Downloaded(1001)],
    [name |-> "c.go",      type |-> "file", ext |-> ".go", size |-> 30, download |-> RateLimited],
    [name |-> "d.rs",      type |-> "file", ext |-> ".rs", size |-> 40, download |-> ConnectionLost],
    [name |-> "README.md", type |-> "file", ext |-> ".md", size |-> 5,  download |-> Downloaded(2)],
    [name |-> "src",       type |-> "dir",  ext |-> "",    size |-> 0,  download |-> Downloaded(1)] }

\* r.json() of the contents API: a list for a directory, a dict otherwise
\* (the body of an error answer is not read)
Listings ==
  { [kind |-> "list", items |-> s] :
      s \in { q \in UNION {[1..n -> ListedItems] : n \in 0..MaxItems} :
                \A i, j \in 1..Len(q) : i # j => q[i] # q[j] } }

SingleFiles ==
  { [kind |-> "file", item |-> it] :
      it \in {x \in ListedItems : x.name \in {"a.py", "big.py", "d.rs"}} }

\* the answer to requests.get(api_url): no answer at all, an error status,
\* or 200 with the data
FetchRemotes ==
  {[answers |-> TRUE, status |-> 200, data |-> d] :
     d \in Listings \cup SingleFiles \cup {[kind |-> "submodule"]}}
  \cup {[answers |-> TRUE, status |-> s, data |-> [kind |-> "none"]] : s \in {403, 404, 500}}
  \cup {[answers |-> FALSE, status |-> 0, data |-> [kind |-> "none"]]}

\* item['type'] == 'file' and any(item['name'].endswith(ext) for ext in code_extensions)
CodeFiles(data) ==
  SelectSeq(data, LAMBDA item : item.type = "file" /\ item.ext \in code_extensions)

\* list.sort(key=size): a stable sort, smallest first
RECURSIVE InsertBySize(_, _)
InsertBySize(sorted, item) ==
  IF sorted = <<>> THEN <<item>>
  ELSE IF sorted[Len(sorted)].size <= item.size THEN Append(sorted, item)
  ELSE Append(InsertBySize(SubSeq(sorted, 1, Len(sorted) - 1), item), sorted[Len(sorted)])

RECURSIVE SortedBySize(_, _)
SortedBySize(s, n) ==
  IF n = 0 THEN <<>> ELSE InsertBySize(SortedBySize(s, n - 1), s[n])

\* files_to_process[:max_files]
Sliced(s, max_files) == SubSeq(s, 1, Min(Len(s), max_files))

\* response = {...}
NewResponse(parsed) ==
  [repository |-> <<parsed.owner, parsed.repo>>, branch |-> parsed.branch,
   files |-> <<>>, total_lines |-> 0, fetched_files |-> 0, truncated |-> FALSE]

FileEntry(item) ==
  [name |-> item.name, content |-> item.download.body,
   line_count |-> item.download.lines]

\* the error dict of the RequestException handler
RequestError(status) ==
  IF status = 404 THEN [error |-> "Repository, branch, or path not found"]
  ELSE IF status = 403 THEN [error |-> "GitHub API rate limit exceeded"]
  ELSE [error |-> "GitHub API error"]

NoFetch == [pc |-> "none"]

\* a call fetch_github_code(url, max_files, max_lines) and the remote it meets
InitFetch ==
  \E url \in {"https://github.com/o/app", "not a repository"}, remote \in FetchRemotes,
     max_files \in {1, 2, 10}, max_lines \in {5, 5000} :
    fetch = [pc |-> "call", url |-> url, remote |-> remote,
             max_files |-> max_files, max_lines |-> max_lines]

\* the result of the function
FetchReturned(f, value) ==
  [pc |-> "returned", url |-> f.url, remote |-> f.remote, max_files |-> f.max_files,
   max_lines |-> f.max_lines, files_to_process |-> <<>>, i |-> 1, response |-> value]

\* the state at the head of the loop: the filtered and sorted listing
LoopOver(f, parsed) ==
  [pc |-> "loop", url |-> f.url, remote |-> f.remote, max_files |-> f.max_files,
   max_lines |-> f.max_lines,
   files_to_process |-> SortedBySize(CodeFiles(f.remote.data.items), Len(CodeFiles(f.remote.data.items))),
   i |-> 1,
   response |-> NewResponse(parsed)]

\* the single-file branch
SingleFile(f, parsed, item) ==
  IF item.download.kind = "raise"
  THEN FetchReturned(f, [error |-> "Error fetching file"])
  ELSE FetchReturned(f, [NewResponse(parsed) EXCEPT
                           !.files = <<FileEntry(item)>>,
                           !.total_lines = item.download.lines,
                           !.fetched_files = 1])

\* parse_github_url(url) and requests.get(api_url, headers=headers)
FetchBegin ==
  /\ fetch.pc = "call"
  /\ IF parse_github_url(fetch.url).kind = "none"
     THEN fetch' = FetchReturned(fetch, [error |-> "Invalid GitHub URL format"])
     ELSE fetch' = [fetch EXCEPT !.pc = "listing"]
  /\ UNCHANGED <<appVars, cacheVars, code, output>>

\* the listing request returns: r.raise_for_status(), data = r.json() and the
\* branch taken on data.  requests.get is called without a timeout, so a
\* remote that does not answer leaves the call waiting.
FetchListing ==
  /\ fetch.pc = "listing"
  /\ fetch.remote.answers
  /\ fetch' =
       IF fetch.remote.status # 200
       THEN FetchReturned(fetch, RequestError(fetch.remote.status))
       ELSE IF fetch.remote.data.kind = "list"
       THEN LoopOver(fetch, parse_github_url(fetch.url))
       ELSE IF fetch.remote.data.kind = "file"
       THEN SingleFile(fetch, parse_github_url(fetch.url), fetch.remote.data.item)
       ELSE FetchReturned(fetch, NewResponse(parse_github_url(fetch.url)))
  /\ UNCHANGED <<appVars, cacheVars, code, output>>

\* (variant: a file is added whatever its line count)
IterationWithoutSkip(f, item) ==
  IF f.response.total_lines >= f.max_lines
  THEN [f EXCEPT !.pc = "returned", !.response.truncated = TRUE]
  ELSE IF item.download.kind = "raise"
  THEN [f EXCEPT !.i = @ + 1]
  ELSE [f EXCEPT !.i = @ + 1,
                 !.response.files = Append(@, FileEntry(item)),
                 !.response.total_lines = @ + item.download.lines,
                 !.response.fetched_files = @ + 1]

\* one iteration of the loop on file_item
Iteration(f, item) ==
  IF f.response.total_lines >= f.max_lines
  THEN [f EXCEPT !.pc = "returned", !.response.truncated = TRUE]
  ELSE IF item.download.kind = "raise"
  THEN [f EXCEPT !.i = @ + 1]
  ELSE IF item.download.lines > 1000
  THEN [f EXCEPT !.i = @ + 1]
  ELSE [f EXCEPT !.i = @ + 1,
                 !.response.files = Append(@, FileEntry(item)),
                 !.response.total_lines = @ + item.download.lines,
                 !.response.fetched_files = @ + 1]

FetchFile ==
  /\ fetch.pc = "loop"
  /\ fetch.i <= Len(Sliced(fetch.files_to_process, fetch.max_files))
  /\ fetch' = Iteration(fetch, fetch.files_to_process[fetch.i])
  /\ UNCHANGED <<appVars, cacheVars, code, output>>

\* the loop is exhausted: return response
FetchReturn ==
  /\ fetch.pc = "loop"
  /\ fetch.i > Len(Sliced(fetch.files_to_process, fetch.max_files))
  /\ fetch' = [fetch EXCEPT !.pc = "returned"]
  /\ UNCHANGED <<appVars, cacheVars, code, output>>

NextFetch ==
  \/ FetchBegin
  \/ FetchListing
  \/ FetchFile
  \/ FetchReturn

\* sum of line_count over the first n entries of files
RECURSIVE SumLineCount(_, _)
SumLineCount(entries, n) ==
  IF n = 0 THEN 0 ELSE entries[n].line_count + SumLineCount(entries, n - 1)

\* the entries of the items of s that the loop adds: downloaded, and not
\* larger than 1000 lines
RECURSIVE EntriesOf(_, _)
EntriesOf(s, n) ==
  IF n = 0 THEN <<>>
  ELSE IF s[n].download.kind = "ok" /\ s[n].download.lines <= 1000
       THEN Append(EntriesOf(s, n - 1), FileEntry(s[n]))
       ELSE EntriesOf(s, n - 1)

\* the call is in, or has returned from, the loop over a directory listing
InLoopOrAfter ==
  /\ fetch.pc \in {"loop", "returned"}
  /\ fetch.remote.answers /\ fetch.remote.status = 200 /\ fetch.remote.data.kind = "list"
  /\ "files" \in DOMAIN fetch.response

(***************************************************************************)
(* backend/main.py: the cache-backed service.  A handler runs from the     *)
(* request to the response as one step: analysis_cache is written at most  *)
(* once, by store_analysis_result at the end of a successful handler.      *)
(***************************************************************************)
MaxRequests == 2

\* the capacity the result cache is said to be configured with
CacheCapacity == 1

RequestIds == 1..MaxRequests

\* CodeAnalysisRequest.code
SubmittedCodes == {<<>>, <<"blank">>, <<"comment">>, <<"hello">>, <<"call_eval">>}

\* GitHubAnalysisRequest.url (an HttpUrl) and max_files
SubmittedUrls == {"https://github.com/o", "https://github.com/o/app", "https://github.com/o/docs"}
MaxFiles == {0, 1, 10}

\* urlparse(url).path.strip('/').split('/')
path_parts(url) ==
  CASE url = "https://github.com/o"      -> <<"o">>
    [] url = "https://github.com/o/app"  -> <<"o", "app">>
    [] url = "https://github.com/o/docs" -> <<"o", "docs">>

\* the tree the remote returns for a repository
RemoteTree(url) ==
  CASE url = "https://github.com/o/app" ->
         << [path |-> "src", type |-> "tree", ext |-> ""],
            [path |-> "src/main.py", type |-> "blob", ext |-> ".py"],
            [path |-> "README.md", type |-> "blob", ext |-> ".md"],
            [path |-> "web/index.js", type |-> "blob", ext |-> ".js"] >>
    [] url = "https://github.com/o/docs" ->
         << [path |-> "README.md", type |-> "blob", ext |-> ".md"],
            [path |-> "LICENSE", type |-> "blob", ext |-> ""] >>
    [] OTHER -> <<>>

\* the text the remote serves for a file
RemoteFile(path) ==
  CASE path = "src/main.py"  -> <<"call_eval">>
    [] path = "web/index.js" -> <<"comment", "names">>
    [] OTHER -> <<>>

FilePathsOfTrees == {"src/main.py", "web/index.js"}

\* the answers of the remote to one repository request: the status of the
\* repository call, of the tree call and of each download
Remotes ==
  [info : {200, 404}, tree : {200, 403}, raw : [FilePathsOfTrees -> {200, 404}]]

analysis_extensions == {".py", ".js", ".ts", ".sol", ".java", ".cpp", ".go"}

lang_map(ext) ==
  CASE ext = ".py" -> "Python" [] ext = ".js" -> "JavaScript" [] ext = ".ts" -> "TypeScript"
    [] ext = ".sol" -> "Solidity" [] ext = ".java" -> "Java" [] ext = ".cpp" -> "C++"
    [] ext = ".go" -> "Go" [] OTHER -> "Other"

Raised(status, detail) == [kind |-> "raise", status |-> status, detail |-> detail]

\* item['type'] == 'blob' and any(item['path'].endswith(ext) for ext in [...])
filtered_contents(tree) ==
  SelectSeq(tree, LAMBDA item : item.type = "blob" /\ item.ext \in analysis_extensions)

\* fetch_github_content: the repository content, or the HTTPException raised
fetch_github_content(url, remote) ==
  IF Len(path_parts(url)) < 2
  THEN Raised(500, "Error: Invalid GitHub URL")
  ELSE IF remote.info # 200
  THEN Raised(remote.info, "Failed to fetch repository")
  ELSE IF remote.tree # 200
  THEN Raised(remote.tree, "Failed to fetch repository contents")
  ELSE IF filtered_contents(RemoteTree(url)) = <<>>
  THEN Raised(400, "No suitable files found for analysis")
  ELSE [kind |-> "ok", contents |-> filtered_contents(RemoteTree(url))]

\* the files of contents[:max_files] whose download answered 200, analysed
RECURSIVE file_results(_, _, _, _)
file_results(contents, max_files, remote, i) ==
  IF i > Len(contents) \/ i > max_files THEN <<>>
  ELSE (IF remote.raw[contents[i].path] = 200
        THEN <<[file |-> contents[i].path, language |-> lang_map(contents[i].ext),
                analysis |-> analyze_code_content(RemoteFile(contents[i].path))]>>
        ELSE <<>>) \o file_results(contents, max_files, remote, i + 1)

RECURSIVE SumDetails(_, _, _)
SumDetails(results, field, n) ==
  IF n = 0 THEN 0
  ELSE results[n].analysis.analysis_details[field] + SumDetails(results, field, n - 1)

RECURSIVE SumRisk(_, _)
SumRisk(results, n) ==
  IF n = 0 THEN 0 ELSE results[n].analysis.risk_score + SumRisk(results, n - 1)

RECURSIVE AllFindings(_, _)
AllFindings(results, n) ==
  IF n = 0 THEN <<>>
  ELSE AllFindings(results, n - 1) \o results[n].analysis.security_analysis.vulnerabilities

\* analysis_result; average_risk_score in hundredths
analysis_result(url, contents, max_files, results) ==
  [repository |-> url,
   analysis_summary |->
     [total_files |-> Len(contents),
      analyzed_files |-> Min(Len(contents), max_files),
      total_lines |-> SumDetails(results, "total_lines", Len(results)),
      code_lines |-> SumDetails(results, "code_lines", Len(results)),
      comment_lines |-> SumDetails(results, "comment_lines", Len(results)),
      empty_lines |-> SumDetails(results, "empty_lines", Len(results)),
      total_functions |-> SumDetails(results, "functions_count", Len(results)),
      total_classes |-> SumDetails(results, "classes_count", Len(results)),
      languages |-> {results[i].language : i \in 1..Len(results)},
      average_risk_score |->
        IF results = <<>> THEN 0 ELSE (100 * SumRisk(results, Len(results))) \div Len(results),
      vulnerability_summary |->
        [tier \in {"high", "medium", "low"} |->
           Len(SelectSeq(AllFindings(results, Len(results)), LAMBDA v : v.risk = tier))]],
   files_analyzed |-> Len(results),
   analyses |-> results]

InitCache ==
  /\ analysis_cache = <<>>
  /\ clock = 0
  /\ served = 0
  /\ resp_main = [op |-> "none"]

\* (variant: the cache holds the latest record only)
store_latest_only(request_id, result, repository_url) ==
  /\ analysis_cache' =
       [id \in {request_id} |->
          [status |-> "completed", timestamp |-> clock + 1, result |-> result,
           repository |-> repository_url]]
  /\ clock' = clock + 1

\* store_analysis_result: analysis_cache[request_id] = {...}
store_analysis_result(request_id, result, repository_url) ==
  /\ analysis_cache' =
       [id \in DOMAIN analysis_cache \cup {request_id} |->
          IF id = request_id
          THEN [status |-> "completed", timestamp |-> clock + 1, result |-> result,
                repository |-> repository_url]
          ELSE analysis_cache[id]]
  /\ clock' = clock + 1

\* the response of a handler that raised: every exception, an HTTPException
\* included, is caught by the handler's except clause and raised as 500
Failed(op, request, detail) ==
  [op |-> op, request |-> request, code |-> 500, detail |-> detail]

Returned(op, request, request_id, status) ==
  [op |-> op, request |-> request, code |-> 200, request_id |-> request_id,
   status |-> status]

\* POST /analyze
main_analyze_code(text, signature_ok) ==
  /\ served < MaxRequests
  /\ IF ~signature_ok
     THEN /\ resp_main' = Failed("analyze_code", text, "401: Invalid signature")
          /\ UNCHANGED <<analysis_cache, clock, served>>
     ELSE /\ served' = served + 1
          /\ store_analysis_result(served + 1, analyze_code_content(text), None)
          /\ resp_main' = Returned("analyze_code", text, served + 1, "completed")
  /\ UNCHANGED <<appVars, scanVars>>

\* the part of the handler after fetch_github_content
AnalyzeContents(url, max_files, remote, fetched) ==
  IF fetched.kind = "raise"
  THEN /\ resp_main' = Failed("analyze_github_repo", url, fetched.detail)
       /\ UNCHANGED <<analysis_cache, clock>>
  ELSE /\ store_analysis_result(served + 1,
            analysis_result(url, fetched.contents, max_files,
                            file_results(fetched.contents, max_files, remote, 1)),
            url)
       /\ resp_main' = Returned("analyze_github_repo", url, served + 1, "completed")

\* POST /analyze/github
main_analyze_github_repo(url, max_files, signature_ok, remote) ==
  /\ served < MaxRequests
  /\ IF ~signature_ok
     THEN /\ resp_main' = Failed("analyze_github_repo", url, "401: Invalid signature")
          /\ UNCHANGED <<analysis_cache, clock, served>>
     ELSE /\ served' = served + 1
          /\ AnalyzeContents(url, max_files, remote, fetch_github_content(url, remote))
  /\ UNCHANGED <<appVars, scanVars>>

\* GET /analysis/{request_id}.  The HTTPException(404) raised for an id that
\* is not in the cache is caught by the handler's own except clause.
get_analysis_result(request_id) ==
  /\ IF request_id \notin DOMAIN analysis_cache
     THEN resp_main' = Failed("get_analysis_result", request_id, "404: Analysis not found")
     ELSE resp_main' = Returned("get_analysis_result", request_id, request_id,
                                analysis_cache[request_id].status)
  /\ UNCHANGED <<analysis_cache, clock, served, appVars, scanVars>>

NextCache ==
  \/ \E text \in SubmittedCodes, signature_ok \in BOOLEAN : main_analyze_code(text, signature_ok)
  \/ \E url \in SubmittedUrls, max_files \in MaxFiles, signature_ok \in BOOLEAN, remote \in Remotes :
        main_analyze_github_repo(url, max_files, signature_ok, remote)
  \/ \E request_id \in {UnknownId} \cup RequestIds : get_analysis_result(request_id)

(***************************************************************************)
(* The specifications.                                                     *)
(***************************************************************************)
IdleApp ==
  /\ model = "none" /\ next_id = 0 /\ tasks = <<>> /\ files = <<>> /\ chain = {}
  /\ seen = <<>> /\ resp = [op |-> "none"]
IdleCache ==
  /\ analysis_cache = <<>> /\ clock = 0 /\ served = 0 /\ resp_main = [op |-> "none"]
IdleScan ==
  /\ code = <<>> /\ output = NoOutput /\ fetch = NoFetch

Init == InitApp /\ IdleCache /\ IdleScan

Spec == Init /\ [][Next]_vars

InitOfCache == InitCache /\ IdleApp /\ IdleScan

SpecCache == InitOfCache /\ [][NextCache]_vars

InitOfScan == InitScan /\ IdleApp /\ IdleCache /\ fetch = NoFetch

SpecScan == InitOfScan /\ [][NextScan]_vars

InitOfFetch == InitFetch /\ IdleApp /\ IdleCache /\ code = <<>> /\ output = NoOutput

SpecFetch == InitOfFetch /\ [][NextFetch]_vars

(***************************************************************************)
(* Properties of the job lifecycle (Spec).                                 *)
(***************************************************************************)
Terminal == {"completed", "failed"}

Rank(status) ==
  CASE status = "none"       -> 0
    [] status = "pending"    -> 1
    [] status = "processing" -> 2
    [] status \in Terminal   -> 3

Completed(id) == files[id].kind = "json" /\ files[id].status = "completed"

\* C1: the status shown for an id (by the submit response or by get_analysis)
\* never moves backward along pending -> processing -> {completed, failed},
\* and once completed or failed has been shown, every later status shown for
\* that id is the same one.
C1_StatusMovesForward ==
  [][\A id \in {UnknownId} \cup Ids :
        /\ Rank(seen'[id]) >= Rank(seen[id])
        /\ seen[id] \in Terminal => seen'[id] = seen[id]]_vars

\* a finished job is read again after its terminal status was already shown
C1_Witness ==
  \E id \in Ids :
    /\ tasks[id].pc = "done"
    /\ seen[id] \in Terminal
    /\ resp = [op |-> "get", id |-> id, code |-> 200, status |-> seen[id]]

\* C2 (as stated): when process_github_analysis has returned for a submitted
\* job, the persisted record of the job is completed or failed.
C2_FinishedJobIsTerminal ==
  \A id \in Ids :
    tasks[id].pc = "done" => files[id].kind = "json" /\ files[id].status \in Terminal

\* C3 (as stated): get_analysis for an id that a submit response has returned
\* answers with the job and its status, never with not-found or an error.
C3_SubmittedJobIsFound ==
  (resp.op = "get" /\ resp.id \in 1..next_id) => resp.code = 200

\* C7 (as stated): a job whose prediction step raised (predict_code reports
\* the error) is never stored as completed.
C7_PredictionErrorFailsJob ==
  \A id \in Ids :
    (tasks[id].pc # "none" /\ "error" \in DOMAIN tasks[id].result) => ~Completed(id)

\* C8 (as stated): a job for which fetch_github_code reported an error is
\* never stored as completed.
C8_ListingErrorFailsJob ==
  \A id \in Ids :
    (tasks[id].pc # "none" /\ "error" \in DOMAIN tasks[id].code) => ~Completed(id)

\* C9 (as stated): a job for a repository whose listing holds no file with a
\* recognised extension is never stored as completed.
C9_NoSuitableFilesNotCompleted ==
  \A id \in Ids :
    (/\ tasks[id].pc # "none"
     /\ parse_github_url(tasks[id].request.repo_url).kind = "tuple"
     /\ ~HasCodeFile(RemoteListing(tasks[id].request.repo_url))) => ~Completed(id)

(***************************************************************************)
(* Properties of the cache-backed service (SpecCache).                     *)
(***************************************************************************)
\* C4 (as stated): get_analysis_result for an id that no submission produced
\* answers not-found.
C4_UnknownIdIsNotFound ==
  (resp_main.op = "get_analysis_result" /\ resp_main.request \notin 1..served)
    => resp_main.code = 404

\* C5 (as stated): the result cache never holds more entries than its
\* capacity.
C5_CacheWithinCapacity ==
  Cardinality(DOMAIN analysis_cache) <= CacheCapacity

\* C10 (as stated): a code submission whose text is empty or only whitespace
\* is rejected: it is not answered with a request id and a result.
C10_BlankCodeIsRejected ==
  (resp_main.op = "analyze_code" /\ IsBlankContent(Lines(resp_main.request)))
    => resp_main.code # 200

(***************************************************************************)
(* Properties of the scan (SpecScan).                                      *)
(***************************************************************************)
\* C6: the report of analyze_code_vulnerabilities has risk_level in [0,100],
\* high_risk iff risk_level >= 70, medium_risk iff 30 <= risk_level < 70,
\* low_risk iff risk_level < 30, and exactly one of the three flags is true.
C6_RiskLevelAndFlags ==
  output.op = "analyze_code_vulnerabilities" =>
    /\ output.value.risk_level \in 0..1000
    /\ output.value.high_risk   <=> output.value.risk_level >= 700
    /\ output.value.medium_risk <=> (300 <= output.value.risk_level
                                      /\ output.value.risk_level < 700)
    /\ output.value.low_risk    <=> output.value.risk_level < 300
    /\ Cardinality({f \in {"high_risk", "medium_risk", "low_risk"} : output.value[f]}) = 1

\* a report whose risk sum exceeded the cap: 2.5 times the sum is above 100
C6_Witness ==
  /\ output.op = "analyze_code_vulnerabilities"
  /\ Scan(code).risk_level * 25 > 1000
  /\ output.value.risk_level = 1000
  /\ output.value.high_risk

C13_PredictCodeHasKeys ==
  output.op = "predict_code" =>
    {"prediction", "confidence", "source", "risk_score"} \subseteq DOMAIN output.value

\* C14: every result of predict_code or analyze_code_content has an authorship
\* label in {Human, AI, Uncertain} and a confidence in [0,1].  predict_code
\* carries its confidence in thousandths, analyze_code_content in hundredths.
\* (Fails: labels Unknown and Error, and a confidence given as a percentage.)
C14_LabelAndConfidenceInRange ==
  /\ output.op = "predict_code" =>
       /\ output.value.prediction \in {"Human", "AI", "Uncertain"}
       /\ 0 <= output.value.confidence /\ output.value.confidence <= 1000
  /\ output.op = "analyze_code_content" =>
       /\ output.value.prediction \in {"Human", "AI", "Uncertain"}
       /\ 0 <= output.value.confidence /\ output.value.confidence <= 100

\* C15: for every text with an eval( call that is not treated as guarded, the
\* report of analyze_code_vulnerabilities has the Arbitrary Code Execution
\* finding with risk critical and score 10, and its normalised risk is at
\* least 30.  (Fails: the finding alone gives 10 * 2.5 = 25, which is low.)
C15_UnguardedEvalIsAtLeastMedium ==
  ( /\ output.op = "analyze_code_vulnerabilities"
    /\ Matches(Lines(code), "fn_eval")
    /\ ~is_potentially_safe(Lines(code), "fn_eval") ) =>
    /\ \E i \in 1..Len(output.value.vulnerabilities) :
         /\ output.value.vulnerabilities[i].description.of = "fn_eval"
         /\ output.value.vulnerabilities[i].name = "Arbitrary Code Execution"
         /\ output.value.vulnerabilities[i].risk = "critical"
         /\ output.value.vulnerabilities[i].score = 10
    /\ output.value.risk_level >= 300
    /\ output.value.medium_risk \/ output.value.high_risk

\* C16: a dangerous-function match that is treated as guarded still has its
\* finding in the report, with score max(1, base \div 2), the note on its
\* description and a tier not above the rule's tier; for every rule of
\* dangerous_functions the discounted score is strictly below the base score.
C16_GuardedFindingIsDiscounted ==
  /\ \A k \in 1..Len(dangerous_functions) :
       /\ Discounted(Finding(dangerous_functions[k], "function")).score
            < dangerous_functions[k].score
       /\ Tier(Discounted(Finding(dangerous_functions[k], "function")).risk)
            <= Tier(dangerous_functions[k].risk)
  /\ output.op = "analyze_code_vulnerabilities" =>
       \A k \in 1..Len(dangerous_functions) :
         ( /\ Matches(Lines(code), dangerous_functions[k].key)
           /\ is_potentially_safe(Lines(code), dangerous_functions[k].key) ) =>
           \E i \in 1..Len(output.value.vulnerabilities) :
             /\ output.value.vulnerabilities[i].type = "function"
             /\ output.value.vulnerabilities[i].name = dangerous_functions[k].name
             /\ output.value.vulnerabilities[i].description
                  = [of |-> dangerous_functions[k].key, try_except_note |-> TRUE]
             /\ output.value.vulnerabilities[i].score
                  = Max(1, dangerous_functions[k].score \div 2)
             /\ output.value.vulnerabilities[i].score < dangerous_functions[k].score
             /\ Tier(output.value.vulnerabilities[i].risk)
                  <= Tier(dangerous_functions[k].risk)

C16_Witness ==
  /\ output.op = "analyze_code_vulnerabilities"
  /\ Matches(Lines(code), "fn_eval")
  /\ is_potentially_safe(Lines(code), "fn_eval")
  /\ \E i \in 1..Len(output.value.vulnerabilities) :
       /\ output.value.vulnerabilities[i].description
            = [of |-> "fn_eval", try_except_note |-> TRUE]
       /\ output.value.vulnerabilities[i].score = 5
       /\ output.value.vulnerabilities[i].risk = "medium"

C18_RepositorySubmitIsNotTerminal ==
  (resp_main.op = "analyze_github_repo" /\ resp_main.code = 200) =>
    resp_main.status \notin Terminal

\* C19: a get_analysis that reads the record of an id while the job's task is
\* between two of its steps answers 200 with one of the complete records
\* written for the id; it never meets a partly written file and never
\* answers with an internal error.  (Fails: the file is opened for writing,
\* which empties it, before the record is dumped into it.)
C19_ReadSeesCompleteRecord ==
  [][ \A id \in Ids :
        ( /\ resp' # resp
          /\ resp'.op = "get"
          /\ resp'.id = id
          /\ files[id] # Absent ) =>
          /\ files[id] # Partial
          /\ resp'.code = 200
          /\ resp'.status \in {"processing", "completed", "failed"} ]_vars

C23_TruncatedIffFilesLeftOut ==
  (InLoopOrAfter /\ fetch.pc = "returned") =>
    /\ fetch.response.truncated <=> (fetch.i <= Len(fetch.files_to_process))
    /\ Len(fetch.files_to_process) > fetch.max_files => fetch.response.truncated

\* C21: when the listing call or the download of a file of the listing gets
\* a rate-limit answer, fetch_github_code returns an error, and no entry of
\* a returned response holds the body of such an answer as its content.
\* (Fails: the status of a download is not looked at and its body is added
\* as the content of the file.)
C21_RateLimitFailsTheFetch ==
  ( /\ fetch.pc = "returned"
    /\ fetch.remote.answers
    /\ \/ fetch.remote.status = 403
       \/ \E k \in 1..(fetch.i - 1) :
            /\ k <= Len(fetch.files_to_process)
            /\ fetch.files_to_process[k].download = RateLimited ) =>
    "error" \in DOMAIN fetch.response

\* C24: when the download of one file of a repository fails, the file is
\* skipped and the stored result is built from the other files, its counts
\* of analysed files being the number of files that were analysed.  (Fails:
\* analyzed_files is min(total_files, max_files) whatever was downloaded.)
C24_CountsAreOfAnalysedFiles ==
  \A id \in DOMAIN analysis_cache :
    analysis_cache[id].repository # None =>
      /\ analysis_cache[id].result.files_analyzed
           = Len(analysis_cache[id].result.analyses)
      /\ analysis_cache[id].result.analysis_summary.analyzed_files
           = Len(analysis_cache[id].result.analyses)

\* C30: in the cache-backed service every entry of analysis_cache has status
\* completed, an entry once written is never modified or removed, a
\* submission answered with an error stores no entry, and Get-result reports
\* no status other than completed.
C30_CacheEntriesAreFinal ==
  [][ /\ \A id \in DOMAIN analysis_cache :
           id \in DOMAIN analysis_cache' /\ analysis_cache'[id] = analysis_cache[id]
      /\ \A id \in DOMAIN analysis_cache' : analysis_cache'[id].status = "completed"
      /\ Cardinality(DOMAIN analysis_cache') <= Cardinality(DOMAIN analysis_cache) + 1
      /\ ("code" \in DOMAIN resp_main' /\ resp_main'.code # 200)
           => analysis_cache' = analysis_cache
      /\ ("code" \in DOMAIN resp_main' /\ resp_main'.code = 200
            /\ resp_main'.op = "get_analysis_result")
           => resp_main'.status = "completed" ]_vars

\* a code submission was stored, a repository submission was then answered
\* with an error, and Get-result of the stored id answers completed
C30_Witness ==
  /\ served = 2
  /\ DOMAIN analysis_cache = {1}
  /\ analysis_cache[1].repository = None
  /\ resp_main.op = "get_analysis_result"
  /\ resp_main.code = 200
  /\ resp_main.status = "completed"

\* C27: analyze_code_vulnerabilities raises the naming-consistency issue
\* exactly when the naming consistency is below 0.7 and at least 5 assigned
\* identifiers were observed in the text.
C27_NamingIssueFromFiveIdentifiers ==
  output.op = "analyze_code_vulnerabilities" =>
    (("naming_consistency" \in DOMAIN output.value.code_quality)
       <=> (NamingConsistencyBelow07(Lines(code)) /\ VarNames(Lines(code)) >= 5))

\* C26: a dangerous-function finding is discounted only when a line matched
\* by its rule lies between a try: and the except closing it (the nearest
\* try/except line before it is a try:, the nearest after it an except);
\* otherwise it is reported at the rule's base score and original tier,
\* without the try-except note.
C26_DiscountOnlyInsideTryBlock ==
  output.op = "analyze_code_vulnerabilities" =>
    \A n \in 1..Len(output.value.vulnerabilities) :
      LET v == output.value.vulnerabilities[n]
          L == Lines(code)
          enclosed ==
            \E j \in 1..Len(L) :
              /\ v.description.of \in LineAttr[L[j]].rules
              /\ \E i \in 1..(j - 1) :
                   /\ LineAttr[L[i]].has_try
                   /\ \A m \in (i + 1)..(j - 1) : ~LineAttr[L[m]].has_except
              /\ \E k \in (j + 1)..Len(L) :
                   /\ LineAttr[L[k]].has_except
                   /\ \A m \in (j + 1)..(k - 1) : ~LineAttr[L[m]].has_try
      IN  (v.type = "function" /\ ~enclosed)
            => \E r \in 1..Len(dangerous_functions) :
                 v = Finding(dangerous_functions[r], "function")

\* sum of the scores of the first n findings
RECURSIVE SumFindingScores(_, _)
SumFindingScores(vulnerabilities, n) ==
  IF n = 0 THEN 0 ELSE vulnerabilities[n].score + SumFindingScores(vulnerabilities, n - 1)

\* sum of the scores of the quality entries under keys
RECURSIVE SumQualityScores(_, _)
SumQualityScores(code_quality, keys) ==
  IF keys = {} THEN 0
  ELSE LET k == CHOOSE x \in keys : TRUE
       IN  code_quality[k].score + SumQualityScores(code_quality, keys \ {k})

\* C25: the risk_level reported by analyze_code_vulnerabilities is
\* min(100, 2.5 * S), S the sum of the scores of the findings in the returned
\* vulnerabilities list plus the scores of the entries of the returned
\* code_quality map (risk_level in tenths: min(1000, 25 * S)).
C25_RiskLevelIsScaledSumOfReport ==
  output.op = "analyze_code_vulnerabilities" =>
    output.value.risk_level =
      Min(1000, 25 * (SumFindingScores(output.value.vulnerabilities,
                                       Len(output.value.vulnerabilities))
                      + SumQualityScores(output.value.code_quality,
                                         DOMAIN output.value.code_quality)))

\* a report with a discounted finding, a full-score finding and two quality
\* entries, below the cap
C25_Witness ==
  /\ output.op = "analyze_code_vulnerabilities"
  /\ code = <<"guarded_eval", "call_exec">>
  /\ Len(output.value.vulnerabilities) = 4
  /\ output.value.vulnerabilities[1].description.try_except_note
  /\ output.value.vulnerabilities[1].score = 5
  /\ DOMAIN output.value.code_quality = {"indentation", "documentation"}
  /\ output.value.risk_level = 725

\* fetch_github_code under the scheduling of the interpreter: a step of the
\* call that can be taken is taken.  A request the remote does not answer
\* enables no step.
SpecFetchLive == InitOfFetch /\ [][NextFetch]_vars /\ WF_vars(NextFetch)

\* C22: a collaborator call that never returns is cut off after a bounded
\* wait: a fetch that has sent its listing request returns, with the data or
\* with an error, whatever the remote does.
C22_HungCallIsCutOff == (fetch.pc = "listing") ~> (fetch.pc = "returned")
=============================================================================
